---- MODULE Spec2Model ----
(***************************************************************************)
(* Lane/zone violation pipeline of HTGTTM: the zone store                  *)
(* (src/utils/zone_manager.py), the violation engine                       *)
(* (src/modules/violation_detector.py) and the per-frame orchestrator      *)
(* (src/pipeline.py, LaneViolationPipeline.process_frame).                 *)
(*                                                                         *)
(* Representation.  Coordinates are integers; a point is kept in doubled   *)
(* units <<2x, 2y>> so that the centre (x1+x2)/2 of a box is exact.  A     *)
(* Python dict is a function whose DOMAIN is its key set; a list and an    *)
(* OrderedDict's key order are sequences.  Python's None is the value None *)
(* below (frame indices are >= 0).  An image is identified by the index of *)
(* the frame it was taken from, a file on disk by its name.                *)
(***************************************************************************)
EXTENDS Integers, Sequences, FiniteSets, TLC

VARIABLES
    zones,                      \* zone_manager.zones (list of Zone)
    selected_zone_ids,          \* pipeline.selected_zone_ids
    frame_skip,                 \* pipeline.frame_skip
    confirmation_base,          \* pipeline.confirmation_base
    frame_buffer_max,           \* pipeline.frame_buffer_max
    frame_buffer,               \* pipeline.frame_buffer: keys, oldest first
    zone_presence,              \* pipeline.zone_presence: track_id -> frame
    violation_history,          \* violation_detector.violation_history
    saved_violation_snapshots,  \* pipeline.saved_violation_snapshots
    violation_count,            \* pipeline.violation_count
    files,                      \* names of the image files written so far
    frame_num,                  \* run(): index of the next frame to read
    results,                    \* what the last process_frame call returned
    detected,                   \* track ids the detector reported in that call
    unbroken,                   \* per track: processed frames since its first
                                \* appearance while flagged violating in each
                                \* of them; Broken once one was not
    streak_start,               \* per track: frame index at which its current
                                \* unbroken violating streak began, or None
    peak_total,                 \* per track: the largest total_violations a
                                \* detect_violation call returned for it
    tracks,                     \* SimpleTracker.tracks: track_id -> track
    next_track_id,              \* SimpleTracker.next_track_id
    max_distance,               \* SimpleTracker.max_distance
    max_age,                    \* SimpleTracker.max_age
    min_hits,                   \* SimpleTracker.min_hits
    updates,                    \* number of update calls so far
    tracker_input,              \* detections handed to the latest update call
    matched,                    \* what match_detections returned in that call:
                                \* track_id -> index of its detection
    created,                    \* ids of the tracks that call created
    issued,                     \* ids handed out since construction or reset
    miss_run,                   \* per issued id: latest update calls in a row,
                                \* after the creating one, that left it unmatched
    orchestrator,               \* who drives process_frame: "run" (pipeline
                                \* run()) or "worker" (server _process_task)
    aborted,                    \* an exception ended the run
    faulted,                    \* track ids whose snapshot saving raised in
                                \* the latest process_frame call
    detector_output,            \* what detect_with_tracking returned the last
                                \* time it was called
    confirmed_entries,          \* number of entries process_frame has marked
                                \* is_confirmed since construction
    zone_ops,                   \* number of zone store operations so far
    rescale_log,                \* the rescale_to calls made in a row since the
                                \* last other zone store operation: the target
                                \* size and the zones each call found
    task_counter,               \* WebServer.task_counter
    tasks,                      \* WebServer.tasks: task_id -> ProcessingTask
    handler,                    \* per request: where its handler thread is,
                                \* and the locals it holds
    overwritten,                \* requests whose stored task another
                                \* request's task has replaced
    pipelines,                  \* the LaneViolationPipeline objects built so
                                \* far, by reference
    worker,                     \* per job: where its _process_task thread
                                \* is, and the locals it holds
    actor                       \* the job whose thread took the latest step

pipelineVars == <<zones, selected_zone_ids, frame_skip, confirmation_base,
                  frame_buffer_max, frame_buffer, zone_presence,
                  violation_history, saved_violation_snapshots,
                  violation_count, files, frame_num, results, detected,
                  unbroken, streak_start, peak_total>>

trackerVars == <<tracks, next_track_id, max_distance, max_age, min_hits,
                 updates, tracker_input, matched, created, issued, miss_run>>

runVars == <<orchestrator, aborted, faulted, detector_output, confirmed_entries>>

zoneVars == <<zone_ops, rescale_log>>

serverVars == <<task_counter, tasks, handler, overwritten, pipelines, worker, actor>>

vars == <<pipelineVars, trackerVars, runVars, zoneVars, serverVars>>

(***************************************************************************)
(* Bounds of the model.                                                    *)
(***************************************************************************)
MaxFrame == 4           \* the frames read have the indices 0 .. MaxFrame
MaxProcessed == 3       \* at most this many frames get past the sampling
MaxUpdates == 5         \* at most this many SimpleTracker.update calls

\* Python's None (line 146 of violation_detector.py stores it as the initial
\* first_violation_frame).
None == -1

\* unbroken[t] once a processed frame showed t without flagging it.
Broken == None

(***************************************************************************)
(* Generic helpers.                                                        *)
(***************************************************************************)
Range(s) == {s[i] : i \in 1..Len(s)}

Max(a, b) == IF a >= b THEN a ELSE b

Min(a, b) == IF a <= b THEN a ELSE b

(***************************************************************************)
(* Zone (zone_manager.py).                                                 *)
(***************************************************************************)
\* Zone.__init__ caches the bounding box of the polygon.
BBoxMin(polygon) ==
    IF Len(polygon) > 0
    THEN <<CHOOSE x \in {polygon[i][1] : i \in 1..Len(polygon)} :
               \A j \in 1..Len(polygon) : x <= polygon[j][1],
           CHOOSE y \in {polygon[i][2] : i \in 1..Len(polygon)} :
               \A j \in 1..Len(polygon) : y <= polygon[j][2]>>
    ELSE <<0, 0>>

BBoxMax(polygon) ==
    IF Len(polygon) > 0
    THEN <<CHOOSE x \in {polygon[i][1] : i \in 1..Len(polygon)} :
               \A j \in 1..Len(polygon) : x >= polygon[j][1],
           CHOOSE y \in {polygon[i][2] : i \in 1..Len(polygon)} :
               \A j \in 1..Len(polygon) : y >= polygon[j][2]>>
    ELSE <<0, 0>>

\* cv2.pointPolygonTest(polygon, p, False) >= 0: p is inside the polygon or
\* on its boundary.  p2 is the point in doubled units.  An edge (v0, v)
\* either has p on it, or is crossed by the ray from p towards +x, or
\* neither; the point is inside when the number of crossed edges is odd.
PrevVertex(polygon, i) == IF i = 1 THEN polygon[Len(polygon)] ELSE polygon[i - 1]

EdgeSkipped(v0, v, p2) ==
    \/ (2 * v0[2] <= p2[2] /\ 2 * v[2] <= p2[2])
    \/ (2 * v0[2] > p2[2] /\ 2 * v[2] > p2[2])
    \/ (2 * v0[1] < p2[1] /\ 2 * v[1] < p2[1])

EdgeDist(v0, v, p2) ==
    (p2[2] - 2 * v0[2]) * (v[1] - v0[1]) - (p2[1] - 2 * v0[1]) * (v[2] - v0[2])

OnEdge(v0, v, p2) ==
    IF EdgeSkipped(v0, v, p2)
    THEN /\ p2[2] = 2 * v[2]
         /\ \/ p2[1] = 2 * v[1]
            \/ /\ p2[2] = 2 * v0[2]
               /\ \/ (2 * v0[1] <= p2[1] /\ p2[1] <= 2 * v[1])
                  \/ (2 * v[1] <= p2[1] /\ p2[1] <= 2 * v0[1])
    ELSE EdgeDist(v0, v, p2) = 0

EdgeCrossed(v0, v, p2) ==
    /\ ~EdgeSkipped(v0, v, p2)
    /\ IF v[2] < v0[2] THEN EdgeDist(v0, v, p2) < 0 ELSE EdgeDist(v0, v, p2) > 0

PointPolygonTest(polygon, p2) ==
    IF Len(polygon) = 0 THEN FALSE
    ELSE \/ \E i \in 1..Len(polygon) : OnEdge(PrevVertex(polygon, i), polygon[i], p2)
         \/ Cardinality({i \in 1..Len(polygon) :
                EdgeCrossed(PrevVertex(polygon, i), polygon[i], p2)}) % 2 = 1

\* Zone.__init__: the zone with its cached polygon array and bounding box
\* (name and colour are display data and are left out).
Zone(zone_id, polygon, allowed_classes, base_width, base_height) ==
    [zone_id |-> zone_id, polygon |-> polygon,
     allowed_classes |-> allowed_classes,
     base_width |-> base_width, base_height |-> base_height,
     polygon_array |-> polygon,
     bbox_min |-> BBoxMin(polygon), bbox_max |-> BBoxMax(polygon)]

\* Zone.contains_point: bounding-box rejection, then the polygon test, both
\* on the cached arrays.
contains_point(zone, p2) ==
    IF \/ p2[1] < 2 * zone.bbox_min[1]
       \/ p2[1] > 2 * zone.bbox_max[1]
       \/ p2[2] < 2 * zone.bbox_min[2]
       \/ p2[2] > 2 * zone.bbox_max[2]
    THEN FALSE
    ELSE PointPolygonTest(zone.polygon_array, p2)

\* Zone.is_vehicle_allowed
is_vehicle_allowed(zone, vehicle_class) == vehicle_class \in zone.allowed_classes

(***************************************************************************)
(* ZoneManager (zone_manager.py).                                          *)
(***************************************************************************)
\* get_zone: the first zone with that id, or none: the result is the list of
\* the zones found, empty or of length one.
get_zone(zs, zone_id) ==
    LET hits == {i \in 1..Len(zs) : zs[i].zone_id = zone_id}
    IN  IF hits = {} THEN <<>>
        ELSE <<zs[CHOOSE i \in hits : \A j \in hits : i <= j]>>

\* get_zones_at_point: indices of the zones containing the point.
get_zones_at_point(zs, p2) == {i \in 1..Len(zs) : contains_point(zs[i], p2)}

\* check_violation: is_violating of the returned dictionary.
check_violation(zs, vehicle_center, vehicle_class, selected) ==
    LET at_point == get_zones_at_point(zs, vehicle_center)
        zones_at_point ==
            IF Len(selected) > 0
            THEN {i \in at_point : zs[i].zone_id \in Range(selected)}
            ELSE at_point
        violating_zones ==
            {i \in zones_at_point : ~is_vehicle_allowed(zs[i], vehicle_class)}
    IN  IF zones_at_point = {} THEN FALSE
        ELSE Cardinality(violating_zones) > 0

\* Zone.from_dict: a polygon stored as {x, y} dictionaries is turned into
\* (x, y) pairs, a missing coordinate reading 0; one stored as pairs is
\* taken as it is.  data.polygon_dicts tells the stored format.
from_dict(data) ==
    LET polygon ==
            IF Len(data.polygon) > 0 /\ data.polygon_dicts
            THEN [i \in 1..Len(data.polygon) |->
                     <<IF "x" \in DOMAIN data.polygon[i] THEN data.polygon[i].x ELSE 0,
                       IF "y" \in DOMAIN data.polygon[i] THEN data.polygon[i].y ELSE 0>>]
            ELSE data.polygon
    IN  Zone(data.zone_id, polygon, data.allowed_classes,
             data.base_width, data.base_height)

\* add_zone: a zone of the same id is replaced, the new zone goes last.
add_zone(zs, zone) ==
    SelectSeq(zs, LAMBDA z : z.zone_id # zone.zone_id) \o <<zone>>

\* load_zones: no file leaves the zones as they are, an unreadable file
\* empties them, a readable one replaces them.
load_zones(zs, file) ==
    IF file.status = "missing" THEN zs
    ELSE IF file.status = "corrupt" THEN <<>>
    ELSE [i \in 1..Len(file.zones) |-> from_dict(file.zones[i])]

\* int(round(n / d)) for d > 0: Python rounds a tie to the even neighbour.
\* The factors used here are multiples of 1/4, for which the float product
\* is exact.
RoundHalfEven(n, d) ==
    LET q == n \div d
        r == n % d
    IN  IF 2 * r < d THEN q
        ELSE IF 2 * r > d THEN q + 1
        ELSE IF q % 2 = 0 THEN q ELSE q + 1

\* Line 281: the zone has a usable base size.
has_base_size(zone) ==
    /\ zone.base_width # None /\ zone.base_width # 0
    /\ zone.base_height # None /\ zone.base_height # 0
    /\ zone.base_width > 0
    /\ zone.base_height > 0

\* Lines 282-286: the polygon scaled from the base size to the target.
scaled_polygon(zone, target_width, target_height) ==
    [i \in 1..Len(zone.polygon) |->
        <<RoundHalfEven(zone.polygon[i][1] * target_width, zone.base_width),
          RoundHalfEven(zone.polygon[i][2] * target_height, zone.base_height)>>]

\* Zone.update_cache
update_cache(zone) ==
    [zone EXCEPT !.polygon_array = zone.polygon,
                 !.bbox_min = BBoxMin(zone.polygon),
                 !.bbox_max = BBoxMax(zone.polygon)]

\* Variant: the polygon is scaled and the cached arrays are left alone.
rescale_zone_stale_cache(zone, target_width, target_height) ==
    IF has_base_size(zone)
    THEN [zone EXCEPT !.polygon = scaled_polygon(zone, target_width, target_height)]
    ELSE zone

\* Lines 280-292: one zone of the rescale_to loop.
rescale_zone(zone, target_width, target_height) ==
    IF has_base_size(zone)
    THEN update_cache([zone EXCEPT !.polygon =
                          scaled_polygon(zone, target_width, target_height)])
    ELSE zone

\* rescale_to: nothing for a target size that is not positive; the base size
\* of a zone stays what it was.
rescale_to(zs, target_width, target_height) ==
    IF target_width <= 0 \/ target_height <= 0 THEN zs
    ELSE [i \in 1..Len(zs) |-> rescale_zone(zs[i], target_width, target_height)]

(***************************************************************************)
(* The detector's output (modules/vehicle_detector.py).  The detector is   *)
(* an external collaborator: a frame's detections are an input.            *)
(***************************************************************************)
\* COCO class ids the detector keeps, with the names the model gives them.
VEHICLE_CLASSES == {2, 3, 5, 7}

ClassName(class_id) ==
    CASE class_id = 2 -> "car"
      [] class_id = 3 -> "motorcycle"
      [] class_id = 5 -> "bus"
      [] class_id = 7 -> "truck"

\* detect_with_tracking builds one dictionary per box; centre in doubled units.
Detection(box, class_id, track_id) ==
    [box |-> box, class_id |-> class_id, class_name |-> ClassName(class_id),
     track_id |-> track_id,
     center |-> <<box[1] + box[3], box[2] + box[4]>>]

(***************************************************************************)
(* ViolationDetector (modules/violation_detector.py).                      *)
(***************************************************************************)
\* Variant: the centre of the box instead of its bottom centre.
get_vehicle_box_center2(box) == <<box[1] + box[3], box[2] + box[4]>>

\* get_vehicle_bottom_center, in doubled units.
get_vehicle_bottom_center(box) == <<box[1] + box[3], 2 * box[4]>>

\* calculate_violation_score > violation_threshold (0.3).  The pipeline runs
\* with require_zones = True and hands over no lane boundary, for which the
\* score is 0; np.linspace samples int(width) points from x1 to x2.
LaneSample(box, n, i) == IF n = 1 THEN <<box[1], 1>> ELSE <<box[1] * (n - 1) + i * n, n - 1>>

InSomeLane(x, boundaries) ==
    \E b \in 1..Len(boundaries) :
        boundaries[b].left * x[2] <= x[1] /\ x[1] <= boundaries[b].right * x[2]

OutsidePixels(box, boundaries) ==
    Cardinality({i \in 0..(box[3] - box[1] - 1) :
        ~InSomeLane(LaneSample(box, box[3] - box[1], i), boundaries)})

is_lane_violating(box, boundaries) ==
    IF Len(boundaries) = 0 \/ box[3] - box[1] <= 0 THEN FALSE
    ELSE 10 * OutsidePixels(box, boundaries) > 3 * (box[3] - box[1])

\* The record a track gets on its first call.
NewHistory == [consecutive_violations |-> 0, total_violations |-> 0,
               first_violation_frame |-> None]

\* Lines 118-139: the combined violation status of one detection.
IsViolating(box, boundaries, zs, vehicle_class, selected) ==
    LET lane == IF Len(selected) = 0 THEN is_lane_violating(box, boundaries) ELSE FALSE
        zone == IF vehicle_class # "" /\ Len(selected) > 0
                THEN check_violation(zs, get_vehicle_bottom_center(box),
                                     vehicle_class, selected)
                ELSE FALSE
    IN  [lane_violation |-> lane, zone_violation |-> zone,
         is_violating |-> lane \/ zone]

\* Variant: the lifetime count is raised only when a streak starts.
UpdateHistoryTotalPerStreak(h, is_violating, frame) ==
    IF is_violating
    THEN [consecutive_violations |-> h.consecutive_violations + 1,
          total_violations |->
              IF h.consecutive_violations = 0 THEN h.total_violations + 1
              ELSE h.total_violations,
          first_violation_frame |->
              IF h.first_violation_frame = None THEN frame
              ELSE h.first_violation_frame]
    ELSE [h EXCEPT !.consecutive_violations = 0]

\* Variant: a clear frame lowers the count by one instead of resetting it.
UpdateHistoryDecay(h, is_violating, frame) ==
    IF is_violating
    THEN [consecutive_violations |-> h.consecutive_violations + 1,
          total_violations |-> h.total_violations + 1,
          first_violation_frame |->
              IF h.first_violation_frame = None THEN frame
              ELSE h.first_violation_frame]
    ELSE [h EXCEPT !.consecutive_violations = Max(0, h.consecutive_violations - 1)]

\* Lines 141-156: the history update of one call.
UpdateHistory(h, is_violating, frame) ==
    IF is_violating
    THEN [consecutive_violations |-> h.consecutive_violations + 1,
          total_violations |-> h.total_violations + 1,
          first_violation_frame |->
              IF h.first_violation_frame = None THEN frame
              ELSE h.first_violation_frame]
    ELSE [h EXCEPT !.consecutive_violations = 0]

\* Variant: a detection without identity never finds an earlier record.
history_record_per_detection(history, track_id) ==
    IF track_id >= 0 /\ track_id \in DOMAIN history THEN history[track_id]
    ELSE NewHistory

\* Lines 142-147: the record the call works on, made on the first call for
\* the key; track_id is the key whatever its value, -1 included.
history_record(history, track_id) ==
    IF track_id \in DOMAIN history THEN history[track_id] ELSE NewHistory

\* history with key k set to v (a dict assignment).
DictSet(d, k, v) == [x \in DOMAIN d \cup {k} |-> IF x = k THEN v ELSE d[x]]

\* detect_violation: the new violation_history and the returned dictionary.
detect_violation(history, detection, boundaries, zs, selected, frame) ==
    LET track_id == detection.track_id
        status == IsViolating(detection.box, boundaries, zs,
                              detection.class_name, selected)
        old == history_record(history, track_id)
        new == UpdateHistory(old, status.is_violating, frame)
    IN  [history |-> DictSet(history, track_id, new),
         info |-> [track_id |-> track_id,
                   is_violating |-> status.is_violating,
                   lane_violation |-> status.lane_violation,
                   zone_violation |-> status.zone_violation,
                   consecutive_violations |-> new.consecutive_violations,
                   total_violations |-> new.total_violations,
                   detection |-> detection]]

\* batch_detect_violations: detect_violation over the detections, in order.
RECURSIVE batch_detect_violations(_, _, _, _, _, _)
batch_detect_violations(history, detections, boundaries, zs, selected, frame) ==
    IF Len(detections) = 0 THEN [history |-> history, violations |-> <<>>]
    ELSE LET one == detect_violation(history, Head(detections), boundaries,
                                     zs, selected, frame)
             rest == batch_detect_violations(one.history, Tail(detections),
                                             boundaries, zs, selected, frame)
         IN  [history |-> rest.history,
              violations |-> <<one.info>> \o rest.violations]

\* A cleanup that honours its argument: with a maximum age of 0 nothing is
\* young enough to stay.
cleanup_history_by_age(history, age) ==
    [t \in {k \in DOMAIN history :
                history[k].consecutive_violations # 0 /\ age > 0}
        |-> history[t]]

\* cleanup_history(max_age): drop the records that are not in a streak; the
\* argument is not read.
cleanup_history(history, age) ==
    [t \in {k \in DOMAIN history : history[k].consecutive_violations # 0}
        |-> history[t]]

(***************************************************************************)
(* LaneViolationPipeline (pipeline.py).                                    *)
(***************************************************************************)
\* tracking.zone_grace_frames, at its default.
zone_grace_frames == 3

\* Lines 121-129: store the frame, then pop the oldest while over capacity.
RECURSIVE TrimBuffer(_, _)
TrimBuffer(buffer, max) ==
    IF Len(buffer) > max /\ Len(buffer) > 0
    THEN TrimBuffer(Tail(buffer), max)
    ELSE buffer

\* Variant: popitem(last=True), the newest entry is evicted.
RecordFrameEvictNewest(buffer, frame, max) ==
    LET b == IF frame \in Range(buffer) THEN buffer ELSE Append(buffer, frame)
    IN  SubSeq(b, 1, Min(Len(b), Max(max, 0)))

RecordFrame(buffer, frame, max) ==
    TrimBuffer(IF frame \in Range(buffer) THEN buffer ELSE Append(buffer, frame), max)

\* Lines 142-145: no selection means every configured zone.
DefaultSelection(selected, zs) ==
    IF Len(selected) = 0 THEN [i \in 1..Len(zs) |-> zs[i].zone_id] ELSE selected

\* Lines 202-211: the box centre lies in one of the selected zones.
InAnySelectedZone(detection, zs, selected) ==
    \E k \in 1..Len(selected) :
        LET zone == get_zone(zs, selected[k])
        IN  Len(zone) > 0 /\ contains_point(zone[1], detection.center)

\* Variant: the grace period ends one frame earlier.
InGraceShort(detection, presence, frame) ==
    /\ detection.track_id >= 0
    /\ detection.track_id \in DOMAIN presence
    /\ frame - presence[detection.track_id] < zone_grace_frames

\* Lines 213-217: a track seen in a zone not long ago is kept.
InGrace(detection, presence, frame) ==
    /\ detection.track_id >= 0
    /\ detection.track_id \in DOMAIN presence
    /\ frame - presence[detection.track_id] <= zone_grace_frames

\* Lines 194-226: the zone filter, which also maintains zone_presence.
RECURSIVE FilterDetections(_, _, _, _, _)
FilterDetections(detections, presence, zs, selected, frame) ==
    IF Len(detections) = 0 THEN [presence |-> presence, detections |-> <<>>]
    ELSE LET d == Head(detections)
             in_zone == InAnySelectedZone(d, zs, selected)
             seen == IF in_zone /\ d.track_id >= 0
                     THEN DictSet(presence, d.track_id, frame)
                     ELSE presence
             keep == in_zone \/ InGrace(d, seen, frame)
             rest == FilterDetections(Tail(detections), seen, zs, selected, frame)
         IN  [presence |-> rest.presence,
              detections |-> IF keep THEN <<d>> \o rest.detections
                             ELSE rest.detections]

\* Variant: the breakpoints one interval later.
confirm_required_shifted(fs, base) ==
    IF fs <= 0 THEN base
    ELSE IF fs <= 3 THEN Max(1, base)
    ELSE IF fs <= 6 THEN 2
    ELSE 1

\* Lines 240-258: the confirmation threshold for a sampling interval.
confirm_required(fs, base) ==
    IF fs <= 0 THEN base
    ELSE IF fs <= 2 THEN Max(1, base)
    ELSE IF fs <= 5 THEN 2
    ELSE 1

\* Variants: the threshold must be exceeded; any violating entry counts.
is_confirmed_strict(is_violating, consecutive, required) ==
    is_violating /\ consecutive > required

is_confirmed_any(is_violating, consecutive, required) == is_violating

\* Line 270.
is_confirmed(is_violating, consecutive, required) ==
    is_violating /\ consecutive >= required

\* Lines 289-297.
vehicle_type(class_id) ==
    CASE class_id = 2 -> "otto"
      [] class_id = 3 -> "xemay"
      [] class_id = 5 -> "xebuyt"
      [] class_id = 7 -> "xetai"
      [] OTHER -> "khac"

\* Variant: every confirmed frame saves a snapshot set.
NeedsSnapshotAlways(track_id, saved) == TRUE

\* Variant: only a track with an identity gets a snapshot set.
NeedsSnapshotTracked(track_id, saved) ==
    track_id >= 0 /\ track_id \notin DOMAIN saved

\* Line 277: whether a snapshot set is still to be saved for the track.
NeedsSnapshot(track_id, saved) == track_id \notin DOMAIN saved

\* Variant: the crop is always cut from the current frame.
crop_frame_current(first_frame_idx, buffer, frame) == frame

\* Lines 306-318: the frame the crop is cut from.
crop_frame_num(first_frame_idx, buffer, frame) ==
    IF first_frame_idx # None /\ first_frame_idx \in Range(buffer)
    THEN first_frame_idx
    ELSE frame

\* Lines 299-357: the snapshot set of one confirmed entry: the annotated
\* full frame is the current one, the crop comes from crop_frame_num.  (The
\* padded crop box and the image size in the metadata are left out.)
NoSnapshot == [track_id |-> None]

SnapshotInfo(v, history, buffer, frame) ==
    LET first_frame_idx ==
            IF v.track_id \in DOMAIN history
            THEN history[v.track_id].first_violation_frame
            ELSE None
        vt == vehicle_type(v.detection.class_id)
    IN  [track_id |-> v.track_id,
         snapshot_full |-> [kind |-> "full", track_id |-> v.track_id,
                            vehicle_type |-> vt, frame |-> frame],
         snapshot_crop |-> [kind |-> "crop", track_id |-> v.track_id,
                            vehicle_type |-> vt,
                            frame |-> crop_frame_num(first_frame_idx, buffer, frame)],
         first_violation_frame |-> first_frame_idx]

\* How saving the snapshot set of a track goes: "none" (both images are
\* written), "save" (an exception before the full image is written: lines
\* 278-302, caught at 360) or "crop" (an exception while the crop is cut or
\* written: lines 337-346).  faults maps the affected track ids to "save"
\* or "crop".
NoFaults == <<>>

FaultOf(faults, track_id) ==
    IF track_id \in DOMAIN faults THEN faults[track_id] ELSE "none"

\* snapshot_crop of a set whose crop failed (crop_url stays None).
NoFile == [kind |-> "none"]

\* Variant: a violation is counted once its snapshot set is saved.
violation_count_when_saved(count, confirmed, save, raised) ==
    IF confirmed /\ ~raised THEN count + 1 ELSE count

\* Variant: a violation is counted when its track gets its snapshot set.
violation_count_per_track(count, confirmed, save, raised) ==
    IF confirmed /\ save THEN count + 1 ELSE count

\* Lines 273-274: the count is raised for every confirmed entry, before the
\* test for an earlier snapshot set (save) and before any saving is tried.
violation_count_after(count, confirmed, save, raised) ==
    IF confirmed THEN count + 1 ELSE count

\* Lines 263-366: the loop over the frame's violation entries.  acc carries
\* violation_count, saved_violation_snapshots, the files, the entries
\* already handled and the track ids whose saving raised.
RECURSIVE ConfirmViolations(_, _, _, _, _, _, _)
ConfirmViolations(violations, acc, required, history, buffer, frame, faults) ==
    IF Len(violations) = 0 THEN acc
    ELSE LET v == Head(violations)
             confirmed == is_confirmed(v.is_violating, v.consecutive_violations,
                                       required)
             save == confirmed /\ NeedsSnapshot(v.track_id, acc.saved)
             fault == IF save THEN FaultOf(faults, v.track_id) ELSE "none"
             stored == save /\ fault # "save"
             whole == SnapshotInfo(v, history, buffer, frame)
             info == IF fault = "crop"
                     THEN [whole EXCEPT !.snapshot_crop = NoFile]
                     ELSE whole
             entry == [track_id |-> v.track_id,
                       is_violating |-> v.is_violating,
                       lane_violation |-> v.lane_violation,
                       zone_violation |-> v.zone_violation,
                       consecutive_violations |-> v.consecutive_violations,
                       total_violations |-> v.total_violations,
                       detection |-> v.detection,
                       is_confirmed |-> confirmed,
                       snapshot |-> IF stored THEN info ELSE NoSnapshot]
             next == [count |-> violation_count_after(acc.count, confirmed,
                                                      save, fault # "none"),
                      saved |-> IF stored THEN DictSet(acc.saved, v.track_id, info)
                                ELSE acc.saved,
                      files |-> IF stored
                                THEN acc.files \cup
                                         ({info.snapshot_full, info.snapshot_crop}
                                              \ {NoFile})
                                ELSE acc.files,
                      violations |-> Append(acc.violations, entry),
                      failed |-> IF fault # "none"
                                 THEN acc.failed \cup {v.track_id}
                                 ELSE acc.failed]
         IN  ConfirmViolations(Tail(violations), next, required, history,
                               buffer, frame, faults)

\* draw_results, lines 461-471: the threshold of the statistics overlay,
\* max(1, round(5 - (fs - 1) * 3/4)) up to a frame_skip of 5.
stats_confirm_required(fs) ==
    IF fs <= 0 THEN 3
    ELSE IF fs <= 5 THEN Max(1, RoundHalfEven(20 - 3 * (fs - 1), 4))
    ELSE 1

\* draw_results, line 473: the entries the overlay counts as "Violations".
confirmed_violations(violations, fs) ==
    {i \in 1..Len(violations) :
        /\ violations[i].is_violating
        /\ violations[i].consecutive_violations >= stats_confirm_required(fs)}

EmptyResults(frame) == [frame_num |-> frame, detections |-> <<>>, violations |-> <<>>]

(***************************************************************************)
(* Configurations and inputs of the model.                                 *)
(***************************************************************************)
\* Two overlapping rectangles, cars only on the left and trucks only on the
\* right (in the overlap every vehicle is disallowed by one of them), and a
\* triangle for cars only.
ConfiguredZones ==
    <<Zone("z1", <<(<<0, 4>>), (<<10, 4>>), (<<10, 14>>), (<<0, 14>>)>>, {"car"}, None, None),
      Zone("z2", <<(<<6, 4>>), (<<16, 4>>), (<<16, 14>>), (<<6, 14>>)>>, {"truck"}, None, None),
      Zone("z3", <<(<<20, 4>>), (<<30, 4>>), (<<20, 14>>)>>, {"car"}, None, None)>>

ZoneConfigs == {<<>>, ConfiguredZones}

Selections == {<<>>, <<"z1">>}

FrameSkips == {1, 2, 3, 4, 5, 6, 7}

ConfirmationBases == {2, 3}

BufferSizes == {1, 2}

\* Track ids the detector hands out; -1 stands for "no identity".
TrackIds == {-1, 1}

\* Boxes (x1, y1, x2, y2): centre and bottom centre in z1; centre above z1
\* and bottom centre in it; both outside every zone.
BoxInZone == <<2, 6, 4, 10>>
BoxBottomIn == <<2, 0, 4, 6>>
BoxOutside == <<20, 0, 22, 2>>

Detections ==
    {Detection(BoxInZone, 7, 1), Detection(BoxInZone, 2, 1),
     Detection(BoxBottomIn, 7, 1), Detection(BoxOutside, 7, 1),
     Detection(BoxInZone, 7, -1), Detection(BoxInZone, 2, -1)}

\* One frame's detector output: nothing, one box, or two boxes of which the
\* second has no identity (the tracker gives an identity to one box only).
FrameDetections ==
    {<<>>} \cup {<<d>> : d \in Detections}
           \cup {<<d, e>> : d \in Detections,
                            e \in {x \in Detections : x.track_id = -1}}

(***************************************************************************)
(* SimpleTracker (modules/tracker.py).                                     *)
(***************************************************************************)
\* A track keeps at most this many trajectory points (line 116).
trajectory_cap == 100

\* TrackedObject as line 124-134 builds it for a detection; the timestamp of
\* an update call is its index.
TrackedObject(track_id, detection, timestamp) ==
    [track_id |-> track_id,
     detections |-> <<detection>>,
     timestamps |-> <<timestamp>>,
     trajectory |-> <<detection.center>>,
     age |-> 1, hits |-> 1, consecutive_misses |-> 0]

\* distance: the square of the Euclidean distance, for points in doubled
\* units (so 4 d^2); the code compares distances only, and d < e exactly
\* when d^2 < e^2.
distance2(point1, point2) ==
    (point1[1] - point2[1]) * (point1[1] - point2[1])
        + (point1[2] - point2[2]) * (point1[2] - point2[2])

\* Variant: <= in the comparison of line 76.
RECURSIVE BestMatchOrEqual(_, _, _, _, _, _)
BestMatchOrEqual(last_center, detections, used_detections, i, best_match_idx, best_distance2) ==
    IF i > Len(detections) THEN best_match_idx
    ELSE IF i \in used_detections
    THEN BestMatchOrEqual(last_center, detections, used_detections, i + 1,
                          best_match_idx, best_distance2)
    ELSE IF distance2(last_center, detections[i].center) <= best_distance2
    THEN BestMatchOrEqual(last_center, detections, used_detections, i + 1, i,
                          distance2(last_center, detections[i].center))
    ELSE BestMatchOrEqual(last_center, detections, used_detections, i + 1,
                          best_match_idx, best_distance2)

\* Lines 66-78: the scan of the detections from index i on (indices from 1;
\* None is the code's -1).
RECURSIVE BestMatch(_, _, _, _, _, _)
BestMatch(last_center, detections, used_detections, i, best_match_idx, best_distance2) ==
    IF i > Len(detections) THEN best_match_idx
    ELSE IF i \in used_detections
    THEN BestMatch(last_center, detections, used_detections, i + 1,
                   best_match_idx, best_distance2)
    ELSE IF distance2(last_center, detections[i].center) < best_distance2
    THEN BestMatch(last_center, detections, used_detections, i + 1, i,
                   distance2(last_center, detections[i].center))
    ELSE BestMatch(last_center, detections, used_detections, i + 1,
                   best_match_idx, best_distance2)

\* The first key of a dict whose keys were inserted in increasing order.
FirstKey(ids) == CHOOSE t \in ids : \A u \in ids : t <= u

\* Lines 58-81: one track of the match_detections loop; acc maps the tracks
\* matched so far to the index of their detection.
MatchTrack(t, trks, detections, maxd, maxa, acc) ==
    LET track == trks[t]
        best == BestMatch(track.trajectory[Len(track.trajectory)],
                          detections, {acc[k] : k \in DOMAIN acc}, 1,
                          None, 4 * maxd * maxd)
    IN  IF track.age > maxa \/ Len(track.trajectory) = 0 THEN acc
        ELSE IF best >= 1 THEN DictSet(acc, t, best) ELSE acc

\* match_detections: the loop over the tracks in ids, in dictionary order:
\* the lower half of the ids, then, from what these matched, the upper
\* half.
RECURSIVE MatchTracks(_, _, _, _, _, _)
MatchTracks(ids, trks, detections, maxd, maxa, acc) ==
    IF ids = {} THEN acc
    ELSE IF Cardinality(ids) = 1
    THEN MatchTrack(FirstKey(ids), trks, detections, maxd, maxa, acc)
    ELSE LET lo == FirstKey(ids)
             hi == CHOOSE t \in ids : \A u \in ids : t >= u
             lower == {t \in ids : t <= (lo + hi) \div 2}
             first == MatchTracks(lower, trks, detections, maxd, maxa, acc)
         IN  IF DOMAIN first = {}
             THEN MatchTracks(ids \ lower, trks, detections, maxd, maxa, <<>>)
             ELSE MatchTracks(ids \ lower, trks, detections, maxd, maxa, first)

match_detections(trks, detections, maxd, maxa) ==
    MatchTracks(DOMAIN trks, trks, detections, maxd, maxa, <<>>)

\* Variant: once the list is over the cap the newest element is dropped.
CapListDropNewest(list) == IF Len(list) > trajectory_cap THEN SubSeq(list, 1, trajectory_cap) ELSE list

\* Lines 115-119: drop the oldest element once the list is over the cap.
CapList(list) == IF Len(list) > trajectory_cap THEN Tail(list) ELSE list

\* Variant: a match raises hits without ageing the track.
UpdateMatchedNoAge(track, detection, timestamp) ==
    [track EXCEPT
        !.detections = CapList(Append(@, detection)),
        !.timestamps = CapList(Append(@, timestamp)),
        !.trajectory = CapList(Append(@, detection.center)),
        !.hits = @ + 1,
        !.consecutive_misses = 0]

\* Lines 106-119: a matched track.
UpdateMatched(track, detection, timestamp) ==
    [track EXCEPT
        !.detections = CapList(Append(@, detection)),
        !.timestamps = CapList(Append(@, timestamp)),
        !.trajectory = CapList(Append(@, detection.center)),
        !.hits = @ + 1,
        !.consecutive_misses = 0,
        !.age = @ + 1]

\* Line 102 creates the set and nothing adds to it.
matched_detection_indices(m) == {}

\* Variant: the next id is one above the largest id of a live track.
RECURSIVE CreateTracksAboveLive(_, _, _, _, _, _)
CreateTracksAboveLive(trks, next_id, detections, skip, i, timestamp) ==
    LET id == IF DOMAIN trks = {} THEN 1
              ELSE 1 + CHOOSE t \in DOMAIN trks : \A u \in DOMAIN trks : t >= u
    IN  IF i > Len(detections) THEN [tracks |-> trks, next_track_id |-> id]
        ELSE IF i \in skip
        THEN CreateTracksAboveLive(trks, next_id, detections, skip, i + 1, timestamp)
        ELSE CreateTracksAboveLive(
                 DictSet(trks, id, TrackedObject(id, detections[i], timestamp)),
                 id + 1, detections, skip, i + 1, timestamp)

\* Lines 121-136: a new track for every detection whose index is not in skip.
RECURSIVE CreateTracks(_, _, _, _, _, _)
CreateTracks(trks, next_id, detections, skip, i, timestamp) ==
    IF i > Len(detections) THEN [tracks |-> trks, next_track_id |-> next_id]
    ELSE IF i \in skip
    THEN CreateTracks(trks, next_id, detections, skip, i + 1, timestamp)
    ELSE CreateTracks(
             DictSet(trks, next_id,
                     TrackedObject(next_id, detections[i], timestamp)),
             next_id + 1, detections, skip, i + 1, timestamp)

\* Variant: every track is marked, the matched ones too.
MarkMissingEvery(trks, m) ==
    [t \in DOMAIN trks |->
        [trks[t] EXCEPT !.consecutive_misses = @ + 1, !.age = @ + 1]]

\* Lines 138-142: every track that is not a key of matched.
MarkMissing(trks, m) ==
    [t \in DOMAIN trks |->
        IF t \in DOMAIN m THEN trks[t]
        ELSE [trks[t] EXCEPT !.consecutive_misses = @ + 1, !.age = @ + 1]]

\* Variant: nothing is removed.
RemoveOldNever(trks, maxa) == trks

\* Lines 144-146.
RemoveOld(trks, maxa) ==
    [t \in {k \in DOMAIN trks : trks[k].age <= maxa} |-> trks[t]]

\* update: the new tracks and next_track_id, with what match_detections
\* returned.
update(trks, next_id, detections, maxd, maxa, timestamp) ==
    LET m == match_detections(trks, detections, maxd, maxa)
        hit == [t \in DOMAIN trks |->
                   IF t \in DOMAIN m
                   THEN UpdateMatched(trks[t], detections[m[t]], timestamp)
                   ELSE trks[t]]
        made == CreateTracks(hit, next_id, detections,
                             matched_detection_indices(m), 1, timestamp)
    IN  [tracks |-> RemoveOld(MarkMissing(made.tracks, m), maxa),
         next_track_id |-> made.next_track_id,
         matched |-> m,
         created |-> {t \in DOMAIN made.tracks :
                         t \notin DOMAIN trks
                             \/ made.tracks[t].timestamps = <<timestamp>>}]

\* get_active_tracks
get_active_tracks(trks, minh, maxa) ==
    [t \in {k \in DOMAIN trks : trks[k].hits >= minh /\ trks[k].age <= maxa}
        |-> trks[t]]

\* SimpleTracker.__init__ with the defaults: no track, ids start at 1.  The
\* pipeline takes its track ids from the detector and holds no SimpleTracker.
TrackerIdle ==
    /\ tracks = <<>>
    /\ next_track_id = 1
    /\ max_distance = 100
    /\ max_age = 30
    /\ min_hits = 3
    /\ updates = 0
    /\ tracker_input = <<>>
    /\ matched = <<>>
    /\ created = {}
    /\ issued = {}
    /\ miss_run = <<>>

(***************************************************************************)
(* Bookkeeping for the properties (not program state).                     *)
(***************************************************************************)
Flagged(violations, t) ==
    \E i \in 1..Len(violations) :
        violations[i].track_id = t /\ violations[i].is_violating

NextUnbroken(u, t, ids, violations) ==
    IF u = Broken THEN Broken
    ELSE IF u = 0 /\ t \notin ids THEN 0
    ELSE IF Flagged(violations, t) THEN u + 1
    ELSE Broken

RECURSIVE NextStreakStart(_, _, _, _)
NextStreakStart(start, violations, t, frame) ==
    IF Len(violations) = 0 THEN start
    ELSE LET v == Head(violations)
             s == IF v.track_id # t THEN start
                  ELSE IF ~v.is_violating THEN None
                  ELSE IF start = None THEN frame
                  ELSE start
         IN  NextStreakStart(s, Tail(violations), t, frame)

\* total_violations of the last entry for track t, or total if it has none.
RECURSIVE LastTotal(_, _, _)
LastTotal(total, violations, t) ==
    IF Len(violations) = 0 THEN total
    ELSE LastTotal(IF Head(violations).track_id = t
                   THEN Head(violations).total_violations
                   ELSE total,
                   Tail(violations), t)

RECURSIVE NextPeakTotal(_, _, _)
NextPeakTotal(peak, violations, t) ==
    IF Len(violations) = 0 THEN peak
    ELSE NextPeakTotal(IF Head(violations).track_id = t
                       THEN Max(peak, Head(violations).total_violations)
                       ELSE peak,
                       Tail(violations), t)

\* The orchestrator and the zone store operations at rest: run() drives
\* the frames, nothing raised, no zone store call made.
RunIdle ==
    /\ orchestrator = "run"
    /\ aborted = FALSE
    /\ faulted = {}
    /\ detector_output = <<>>
    /\ confirmed_entries = 0

ZoneStoreIdle ==
    /\ zone_ops = 0
    /\ rescale_log = <<>>

\* The web server at rest: no request received, no job started.
ServerIdle ==
    /\ task_counter = 0
    /\ tasks = <<>>
    /\ handler = <<>>
    /\ overwritten = {}
    /\ pipelines = <<>>
    /\ worker = <<>>
    /\ actor = None

(***************************************************************************)
(* The pipeline run: run() reads frame after frame and hands each to       *)
(* process_frame with the running index.                                   *)
(***************************************************************************)
Init ==
    /\ zones \in ZoneConfigs
    /\ selected_zone_ids \in Selections
    /\ frame_skip \in FrameSkips
    /\ confirmation_base \in ConfirmationBases
    /\ frame_buffer_max \in BufferSizes
    /\ frame_buffer = <<>>
    /\ zone_presence = <<>>
    /\ violation_history = <<>>
    /\ saved_violation_snapshots = <<>>
    /\ violation_count = 0
    /\ files = {}
    /\ frame_num = 0
    /\ results = EmptyResults(None)
    /\ detected = {}
    /\ unbroken = [t \in TrackIds |-> 0]
    /\ streak_start = [t \in TrackIds |-> None]
    /\ peak_total = [t \in TrackIds |-> 0]
    /\ TrackerIdle
    /\ RunIdle
    /\ ZoneStoreIdle
    /\ ServerIdle

\* Variant: every frame is processed.
is_sampled_always(frame, fs) == TRUE

\* Lines 131-133: the frames that get past the sampling.
is_sampled(frame, fs) == frame % fs = 0

\* Frames of index 0 .. MaxFrame are read, and reading stops once
\* MaxProcessed of them got past the sampling.
Reading ==
    /\ ~aborted
    /\ frame_num <= MaxFrame
    /\ (frame_num % frame_skip = 0) =>
           (frame_num + frame_skip - 1) \div frame_skip < MaxProcessed

\* process_frame on a frame the sampling skips (lines 121-133).
SkipFrame ==
    /\ Reading
    /\ ~is_sampled(frame_num, frame_skip)
    /\ frame_buffer' = RecordFrame(frame_buffer, frame_num, frame_buffer_max)
    /\ results' = EmptyResults(frame_num)
    /\ detected' = {}
    /\ frame_num' = frame_num + 1
    /\ UNCHANGED <<zones, selected_zone_ids, frame_skip, confirmation_base,
                   frame_buffer_max, zone_presence, violation_history,
                   saved_violation_snapshots, violation_count, files,
                   unbroken, streak_start, peak_total>>
    /\ UNCHANGED <<trackerVars, runVars, zoneVars, serverVars>>

\* process_frame with no zone configured (lines 121-140).
RefuseFrame ==
    /\ Reading
    /\ is_sampled(frame_num, frame_skip)
    /\ Len(zones) = 0
    /\ frame_buffer' = RecordFrame(frame_buffer, frame_num, frame_buffer_max)
    /\ results' = EmptyResults(frame_num)
    /\ detected' = {}
    /\ frame_num' = frame_num + 1
    /\ UNCHANGED <<zones, selected_zone_ids, frame_skip, confirmation_base,
                   frame_buffer_max, zone_presence, violation_history,
                   saved_violation_snapshots, violation_count, files,
                   unbroken, streak_start, peak_total>>
    /\ UNCHANGED <<trackerVars, runVars, zoneVars, serverVars>>

\* process_frame on a sampled frame (lines 121-368); dets is what the
\* detector returns for it and faults how the snapshot saving goes.  Each
\* intermediate value is bound once.
ProcessFrameWith(dets, faults) ==
    /\ Reading
    /\ is_sampled(frame_num, frame_skip)
    /\ Len(zones) > 0
    /\ \E buffer \in {RecordFrame(frame_buffer, frame_num, frame_buffer_max)} :
       \E selected \in {DefaultSelection(selected_zone_ids, zones)} :
       \E filtered \in {IF Len(selected) > 0
                        THEN FilterDetections(dets, zone_presence, zones,
                                              selected, frame_num)
                        ELSE [presence |-> zone_presence, detections |-> dets]} :
       \E batch \in {IF Len(filtered.detections) > 0
                     THEN batch_detect_violations(violation_history,
                              filtered.detections, <<>>, zones, selected,
                              frame_num)
                     ELSE [history |-> violation_history, violations |-> <<>>]} :
       \E done \in {ConfirmViolations(batch.violations,
                        [count |-> violation_count,
                         saved |-> saved_violation_snapshots,
                         files |-> files, violations |-> <<>>,
                         failed |-> {}],
                        confirm_required(frame_skip, confirmation_base),
                        batch.history, buffer, frame_num, faults)} :
       \E ids \in {{dets[i].track_id : i \in 1..Len(dets)}} :
           /\ frame_buffer' = buffer
           /\ selected_zone_ids' = selected
           /\ zone_presence' = filtered.presence
           /\ violation_history' = batch.history
           /\ violation_count' = done.count
           /\ saved_violation_snapshots' = done.saved
           /\ files' = done.files
           /\ results' = [frame_num |-> frame_num,
                          detections |-> filtered.detections,
                          violations |-> done.violations]
           /\ detected' = ids
           /\ unbroken' = [t \in TrackIds |->
                              NextUnbroken(unbroken[t], t, ids, done.violations)]
           /\ streak_start' = [t \in TrackIds |->
                              NextStreakStart(streak_start[t], done.violations,
                                              t, frame_num)]
           /\ peak_total' = [t \in TrackIds |->
                              NextPeakTotal(peak_total[t], done.violations, t)]
           /\ faulted' = done.failed
           /\ detector_output' = dets
           /\ confirmed_entries' = confirmed_entries +
                  Cardinality({i \in 1..Len(done.violations) :
                                  done.violations[i].is_confirmed})
    /\ frame_num' = frame_num + 1
    /\ UNCHANGED <<zones, frame_skip, confirmation_base, frame_buffer_max>>
    /\ UNCHANGED <<trackerVars, orchestrator, aborted, zoneVars, serverVars>>

\* process_frame on a sampled frame when every image write succeeds.
ProcessFrame(dets) == ProcessFrameWith(dets, NoFaults)

Next ==
    \/ SkipFrame
    \/ RefuseFrame
    \/ \E dets \in FrameDetections : ProcessFrame(dets)

Spec == Init /\ [][Next]_vars

(***************************************************************************)
(* Properties of the pipeline run.                                         *)
(***************************************************************************)
Entries == {results.violations[i] : i \in 1..Len(results.violations)}

FullFiles(t) == {f \in files : f.kind = "full" /\ f.track_id = t}

CropFiles(t) == {f \in files : f.kind = "crop" /\ f.track_id = t}

\* C1: a tracked vehicle flagged violating in every processed frame since it
\* first appeared, with frame_skip <= 2 and threshold T = confirmation_base,
\* has after its n-th processed frame consecutive = total = n, is confirmed
\* exactly when n >= T, and has one snapshot set saved from then on (none
\* before).
C1_UnbrokenStreakConfirmsAtThreshold ==
    \A t \in TrackIds :
        (t >= 0 /\ frame_skip <= 2 /\ unbroken[t] >= 1) =>
            /\ t \in DOMAIN violation_history
            /\ violation_history[t].consecutive_violations = unbroken[t]
            /\ violation_history[t].total_violations = unbroken[t]
            /\ \A e \in Entries :
                   e.track_id = t =>
                       /\ e.consecutive_violations = unbroken[t]
                       /\ e.total_violations = unbroken[t]
                       /\ e.is_confirmed <=> unbroken[t] >= confirmation_base
            /\ Cardinality(FullFiles(t)) =
                   IF unbroken[t] >= confirmation_base THEN 1 ELSE 0
            /\ Cardinality(CropFiles(t)) =
                   IF unbroken[t] >= confirmation_base THEN 1 ELSE 0
            /\ t \in DOMAIN saved_violation_snapshots
                   <=> unbroken[t] >= confirmation_base

\* The scenario of the specification: threshold 3, third violating frame.
C1_Witness ==
    \E t \in TrackIds :
        /\ t >= 0 /\ frame_skip <= 2 /\ confirmation_base = 3
        /\ unbroken[t] = 3
        /\ \E e \in Entries :
               e.track_id = t /\ e.is_confirmed /\ e.total_violations = 3
        /\ Cardinality(FullFiles(t)) = 1

\* C2: an entry process_frame returns is confirmed if and only if it is
\* violating and its consecutive count has reached the threshold in force
\* for the current frame_skip.
C2_ConfirmedIffThresholdReached ==
    \A e \in Entries :
        e.is_confirmed <=>
            (e.is_violating /\ e.consecutive_violations >=
                 confirm_required(frame_skip, confirmation_base))

\* A frame with a confirmed entry and a violating entry still below the
\* threshold.
C2_Witness ==
    \E e, f \in Entries :
        /\ e.is_confirmed
        /\ f.is_violating /\ ~f.is_confirmed
        /\ f.consecutive_violations >= 1

\* C3: the threshold process_frame computes is confirmation_base for
\* frame_skip <= 2, 2 for 3..5 and 1 above 5; with frame_skip = 6 a
\* violating entry is confirmed in the frame that first shows it.
C3_ThresholdSteps ==
    /\ frame_skip <= 2 =>
           confirm_required(frame_skip, confirmation_base) = confirmation_base
    /\ (3 <= frame_skip /\ frame_skip <= 5) =>
           confirm_required(frame_skip, confirmation_base) = 2
    /\ frame_skip > 5 =>
           confirm_required(frame_skip, confirmation_base) = 1
    /\ frame_skip = 6 => \A e \in Entries : e.is_violating => e.is_confirmed

C3_Witness ==
    /\ frame_skip = 6
    /\ \E e \in Entries :
           e.is_violating /\ e.consecutive_violations = 1 /\ e.is_confirmed

\* C5: a track that is detected in a processed frame without being flagged
\* violating there (also when the zone filter drops it) has its counter at 0
\* after that frame.
C5_CounterZeroAfterNonViolatingFrame ==
    \A t \in detected :
        (t >= 0 /\ ~Flagged(results.violations, t)) =>
            \/ t \notin DOMAIN violation_history
            \/ violation_history[t].consecutive_violations = 0

\* C6: a track has at most one snapshot set; once it has an entry in
\* saved_violation_snapshots no later frame writes a file for it or changes
\* that entry.
C6_OneSnapshotSetPerTrack ==
    [][\A t \in TrackIds :
           /\ Cardinality(FullFiles(t)') <= 1
           /\ Cardinality(CropFiles(t)') <= 1
           /\ t \in DOMAIN saved_violation_snapshots =>
                  /\ t \in DOMAIN saved_violation_snapshots'
                  /\ saved_violation_snapshots'[t] = saved_violation_snapshots[t]
                  /\ FullFiles(t)' = FullFiles(t)
                  /\ CropFiles(t)' = CropFiles(t)]_vars

\* A confirmed entry of a track whose snapshot set was saved by an earlier
\* frame: this frame saved nothing for it.
C6_Witness ==
    \E e \in Entries :
        /\ e.is_confirmed
        /\ e.snapshot = NoSnapshot
        /\ e.track_id \in DOMAIN saved_violation_snapshots
        /\ saved_violation_snapshots[e.track_id].snapshot_full.frame
               < results.frame_num

\* C7: the snapshot set saved on a first confirmation has its full frame
\* taken from the current frame, and its crop from the track's
\* first_violation_frame if the buffer still holds that frame, from the
\* current frame otherwise.
C7_CropFromFirstViolationFrameIfBuffered ==
    \A e \in Entries :
        e.snapshot # NoSnapshot =>
            LET first == violation_history[e.track_id].first_violation_frame
            IN  /\ e.snapshot.snapshot_full.frame = results.frame_num
                /\ e.snapshot.snapshot_crop.frame =
                       IF \E i \in 1..Len(frame_buffer) : frame_buffer[i] = first
                       THEN first
                       ELSE results.frame_num

\* A first confirmation whose crop comes from an earlier, still buffered
\* frame.
C7_Witness ==
    \E e \in Entries :
        /\ e.snapshot # NoSnapshot
        /\ e.snapshot.snapshot_crop.frame < results.frame_num
        /\ e.snapshot.snapshot_full.frame = results.frame_num

\* C8: after every process_frame call the buffer holds the most recent
\* min(frame_buffer_max, frames recorded) frame indices, oldest first.
C8_BufferHoldsMostRecentFrames ==
    /\ Len(frame_buffer) <= frame_buffer_max
    /\ Len(frame_buffer) = Min(frame_num, frame_buffer_max)
    /\ \A i \in 1..Len(frame_buffer) :
           frame_buffer[i] = frame_num - Len(frame_buffer) + i - 1

\* A full buffer from which the oldest frames have been evicted.
C8_Witness ==
    /\ Len(frame_buffer) = frame_buffer_max
    /\ frame_buffer_max >= 2
    /\ frame_buffer[1] >= 2

\* C10: while a track's consecutive count is >= 1 its first_violation_frame
\* is the frame at which the current unbroken streak began.
C10_FirstViolationFrameIsStreakStart ==
    \A t \in DOMAIN violation_history :
        (t >= 0 /\ violation_history[t].consecutive_violations >= 1) =>
            violation_history[t].first_violation_frame = streak_start[t]

\* C18: no violation entry, and no confirmed one, comes from a detection
\* without track identity (only detections of active tracks are evaluated).
C18_OnlyTrackedDetectionsEvaluated ==
    \A e \in Entries : e.track_id >= 0

\* C22: all detections without track identity are accounted under the one
\* record keyed -1: in the order process_frame evaluates them, each
\* violating untracked detection raises that record's consecutive and
\* total counts by one, a non-violating one sets the shared consecutive
\* count to 0, and the record ends the call with the counts of the last.
C22_UntrackedShareOneRecord ==
    [][LET vs == results'.violations
           U == {i \in 1..Len(vs) : vs[i].track_id = -1}
           Last(P) == CHOOSE m \in P : \A j \in P : j <= m
           Before(i) ==
               LET P == {j \in U : j < i}
               IN  IF P # {}
                   THEN [c |-> vs[Last(P)].consecutive_violations,
                         t |-> vs[Last(P)].total_violations]
                   ELSE IF -1 \in DOMAIN violation_history
                   THEN [c |-> violation_history[-1].consecutive_violations,
                         t |-> violation_history[-1].total_violations]
                   ELSE [c |-> 0, t |-> 0]
       IN  /\ \A i \in U :
                  IF vs[i].is_violating
                  THEN /\ vs[i].consecutive_violations = Before(i).c + 1
                       /\ vs[i].total_violations = Before(i).t + 1
                  ELSE /\ vs[i].consecutive_violations = 0
                       /\ vs[i].total_violations = Before(i).t
           /\ U # {} =>
                  /\ violation_history'[-1].consecutive_violations =
                         vs[Last(U)].consecutive_violations
                  /\ violation_history'[-1].total_violations =
                         vs[Last(U)].total_violations]_vars

\* A frame with two violating untracked detections that follows another
\* such frame (counts 3 and 4), and a frame whose second untracked
\* detection, not violating, reset the count the first had raised.
C22_Witness ==
    /\ Len(results.violations) = 2
    /\ results.violations[1].track_id = -1
    /\ results.violations[2].track_id = -1
    /\ results.violations[1].is_violating
    /\ results.violations[1].consecutive_violations = 3
    /\ \/ /\ results.violations[2].is_violating
          /\ results.violations[2].consecutive_violations = 4
       \/ /\ ~results.violations[2].is_violating
          /\ results.violations[2].consecutive_violations = 0
          /\ results.violations[2].total_violations = 3

\* C25: with no zone configured, processing is refused before any frame is
\* taken: an entry point never gets through a frame while the zone store
\* is empty.
C25_NoFrameTakenWithoutZones ==
    Len(zones) = 0 => frame_num = 0

\* C33: an entry is confirmed at a frame only if its vehicle was flagged
\* violating in at least threshold consecutive processed frames up to and
\* including that frame; the detections of one single frame never reach the
\* threshold by themselves.  (The processed frames from the start of the
\* vehicle's current streak, or from frame 0 if the streak ended later in
\* the same frame, are the most that can have flagged it.)
C33_ConfirmedOverThresholdFrames ==
    \A e \in Entries :
        e.is_confirmed =>
            LET start == IF streak_start[e.track_id] # None
                         THEN streak_start[e.track_id] ELSE 0
            IN  (results.frame_num - start) \div frame_skip + 1 >=
                    confirm_required(frame_skip, confirmation_base)

\* C34: a process_frame call for a frame index that is not a multiple of
\* frame_skip changes nothing but the frame buffer, which gets the frame
\* as its newest entry and loses its oldest if it was full: the violation
\* history, violation_count, the saved snapshots and files, zone presence
\* and the selection stay, the detector reports nothing, and the result
\* has no detection and no violation.
C34_SkippedFrameOnlyBuffered ==
    [][(frame_num % frame_skip # 0 /\ frame_num' = frame_num + 1) =>
          /\ UNCHANGED <<violation_history, violation_count,
                         saved_violation_snapshots, files, zone_presence,
                         selected_zone_ids, zones>>
          /\ detected' = {}
          /\ results'.frame_num = frame_num
          /\ results'.detections = <<>>
          /\ results'.violations = <<>>
          /\ Len(frame_buffer') = Min(Len(frame_buffer) + 1, frame_buffer_max)
          /\ \A i \in 1..Len(frame_buffer') :
                 frame_buffer'[i] =
                     Append(frame_buffer, frame_num)[
                         Len(frame_buffer) + 1 - Len(frame_buffer') + i]]_vars

\* A skipped frame that follows a processed one with a violation: the
\* history is kept and the full buffer let go of its oldest frame.
C34_Witness ==
    /\ frame_num >= 2
    /\ (frame_num - 1) % frame_skip # 0
    /\ results = EmptyResults(frame_num - 1)
    /\ \E t \in DOMAIN violation_history :
           violation_history[t].consecutive_violations >= 1
    /\ Len(frame_buffer) = frame_buffer_max
    /\ frame_buffer[1] > 0

\* C37: the number of violations draw_results shows in the statistics
\* overlay of a frame equals the number of the frame's entries with
\* is_confirmed = true.
C37_OverlayCountsConfirmedEntries ==
    Cardinality(confirmed_violations(results.violations, frame_skip)) =
        Cardinality({i \in 1..Len(results.violations) :
                        results.violations[i].is_confirmed})

\* C39: with image writes that do not fail, the keys of
\* saved_violation_snapshots are at every moment the track ids that had a
\* confirmed entry in some processed frame so far: a process_frame call
\* adds exactly the ids it confirms for the first time and no other call
\* adds or removes a key; the set recorded for such an id is the entry's
\* snapshot and its first_violation_frame is a frame not after the
\* current one.
C39_SnapshotKeysAreConfirmedTracks ==
    [][LET vs == IF results'.frame_num = frame_num THEN results'.violations
                 ELSE <<>>
           confirmed == {vs[i].track_id :
                            i \in {j \in 1..Len(vs) : vs[j].is_confirmed}}
           first == confirmed \ DOMAIN saved_violation_snapshots
       IN  /\ DOMAIN saved_violation_snapshots' =
                  DOMAIN saved_violation_snapshots \cup confirmed
           /\ \A t \in first :
                  /\ saved_violation_snapshots'[t].first_violation_frame
                         \in 0..frame_num
                  /\ \E i \in 1..Len(vs) :
                         /\ vs[i].track_id = t
                         /\ vs[i].is_confirmed
                         /\ vs[i].snapshot = saved_violation_snapshots'[t]
                         /\ \A j \in 1..(i - 1) :
                                vs[j].track_id = t => ~vs[j].is_confirmed]_vars

\* A frame that confirms track 1 for the first time and records its
\* snapshot set, the violation having begun in an earlier frame, while the
\* untracked detection next to it is confirmed and recorded as well.
C39_Witness ==
    /\ DOMAIN saved_violation_snapshots = {-1, 1}
    /\ \E e \in Entries :
           /\ e.track_id = 1
           /\ e.is_confirmed
           /\ e.snapshot = saved_violation_snapshots[1]
           /\ e.snapshot.first_violation_frame < results.frame_num
    /\ \E e \in Entries :
           /\ e.track_id = -1
           /\ e.is_confirmed

(***************************************************************************)
(* The violation engine on its own: any sequence of                        *)
(* batch_detect_violations calls (one detection each, with the call's      *)
(* index as frame number) and cleanup_history calls, for any selection.    *)
(***************************************************************************)
DetectorSelections ==
    {<<>>, <<"z1">>, <<"z2">>, <<"z1", "z2">>, <<"z1", "z2", "z3">>}

\* Boxes whose bottom centre is: in z1 only; in the overlap; in z2 only;
\* below z1 (centre in z1); in z1 (centre above it); outside every zone; on
\* the corner (10, 14) of z1; on the left edge of z1; at x = 5.5, left of
\* z2; inside the triangle z3; in z3's bounding box but not in z3; on the
\* sloping edge of z3.
ZoneBoxes ==
    {<<2, 6, 4, 10>>, <<7, 6, 9, 10>>, <<12, 6, 14, 10>>, <<2, 10, 4, 16>>,
     <<2, 0, 4, 6>>, <<20, 0, 22, 2>>, <<9, 10, 11, 14>>, <<-1, 6, 1, 10>>,
     <<5, 6, 6, 10>>, <<21, 2, 23, 6>>, <<28, 9, 30, 13>>, <<26, 3, 28, 7>>}

DetectorInputs ==
    {Detection(b, c, 1) : b \in ZoneBoxes, c \in {2, 7}}
        \cup {Detection(BoxInZone, c, -1) : c \in {2, 7}}

InitDetector ==
    /\ zones = ConfiguredZones
    /\ selected_zone_ids \in DetectorSelections
    /\ frame_skip = 1
    /\ confirmation_base = 3
    /\ frame_buffer_max = 1
    /\ frame_buffer = <<>>
    /\ zone_presence = <<>>
    /\ violation_history = <<>>
    /\ saved_violation_snapshots = <<>>
    /\ violation_count = 0
    /\ files = {}
    /\ frame_num = 0
    /\ results = EmptyResults(None)
    /\ detected = {}
    /\ unbroken = [t \in TrackIds |-> 0]
    /\ streak_start = [t \in TrackIds |-> None]
    /\ peak_total = [t \in TrackIds |-> 0]
    /\ TrackerIdle
    /\ RunIdle
    /\ ZoneStoreIdle
    /\ ServerIdle

\* batch_detect_violations([d], ..., frame_num = the call's index).
DetectCall(d) ==
    /\ frame_num < MaxProcessed
    /\ \E batch \in {batch_detect_violations(violation_history, <<d>>, <<>>,
                         zones, selected_zone_ids, frame_num)} :
           /\ violation_history' = batch.history
           /\ results' = [frame_num |-> frame_num, detections |-> <<d>>,
                          violations |-> batch.violations]
           /\ streak_start' = [t \in TrackIds |->
                                  NextStreakStart(streak_start[t],
                                      batch.violations, t, frame_num)]
           /\ peak_total' = [t \in TrackIds |->
                                NextPeakTotal(peak_total[t], batch.violations, t)]
    /\ detected' = {d.track_id}
    /\ frame_num' = frame_num + 1
    /\ UNCHANGED <<zones, selected_zone_ids, frame_skip, confirmation_base,
                   frame_buffer_max, frame_buffer, zone_presence,
                   saved_violation_snapshots, violation_count, files, unbroken>>
    /\ UNCHANGED <<trackerVars, runVars, zoneVars, serverVars>>

\* The maximum ages cleanup_history is called with (300 is its default).
CleanupAges == {0, 1, 300}

\* cleanup_history(age).
CleanupCall(age) ==
    /\ violation_history' = cleanup_history(violation_history, age)
    /\ UNCHANGED <<zones, selected_zone_ids, frame_skip, confirmation_base,
                   frame_buffer_max, frame_buffer, zone_presence,
                   saved_violation_snapshots, violation_count, files,
                   frame_num, results, detected, unbroken, streak_start,
                   peak_total>>
    /\ UNCHANGED <<trackerVars, runVars, zoneVars, serverVars>>

NextDetector ==
    \/ \E d \in DetectorInputs : DetectCall(d)
    \/ \E age \in CleanupAges : CleanupCall(age)

SpecDetector == InitDetector /\ [][NextDetector]_vars

\* C4: a detect_violation call that evaluates to not violating leaves the
\* track's consecutive count at exactly 0, and the next violating call for
\* that track returns 1.  (streak_start[t] = None: the latest call for t, if
\* any, was not violating.)
C4_ResetToZeroThenOne ==
    [][frame_num' # frame_num =>
          \A i \in 1..Len(results'.violations) :
              LET e == results'.violations[i]
              IN  /\ ~e.is_violating =>
                         /\ e.consecutive_violations = 0
                         /\ violation_history'[e.track_id].consecutive_violations = 0
                  /\ (e.is_violating /\ streak_start[e.track_id] = None) =>
                         e.consecutive_violations = 1]_vars

\* A non-violating call that follows two violating calls of the same track:
\* the count went from 2 to 0.
C4_Witness ==
    /\ frame_num = 3
    /\ \E e \in Entries :
           /\ ~e.is_violating
           /\ e.total_violations = 2
           /\ e.consecutive_violations = 0

\* The point lies in the convex polygon or on its boundary: it is on the
\* same side of every edge.
InsideConvex(polygon, p2) ==
    \/ \A i \in 1..Len(polygon) : EdgeDist(PrevVertex(polygon, i), polygon[i], p2) >= 0
    \/ \A i \in 1..Len(polygon) : EdgeDist(PrevVertex(polygon, i), polygon[i], p2) <= 0

\* C9: a detection is flagged zone-violating if and only if the bottom
\* centre ((x1+x2)/2, y2) of its box lies in at least one selected zone that
\* does not allow its class.
C9_ZoneViolationRule ==
    \A e \in Entries :
        e.zone_violation <=>
            \E i \in 1..Len(zones) :
                /\ \E k \in 1..Len(selected_zone_ids) :
                       selected_zone_ids[k] = zones[i].zone_id
                /\ InsideConvex(zones[i].polygon,
                       <<e.detection.box[1] + e.detection.box[3],
                         2 * e.detection.box[4]>>)
                /\ e.detection.class_name \notin zones[i].allowed_classes

\* A car in the overlap of z1 (cars only) and z2 (trucks only), both
\* selected: allowed by one zone, flagged because of the other.
C9_Witness ==
    \E e \in Entries :
        /\ e.zone_violation
        /\ e.detection.class_name = "car"
        /\ e.detection.box = <<7, 6, 9, 10>>
        /\ Len(selected_zone_ids) >= 2

\* C19: the total_violations the engine returns for a track is never below
\* one it returned for that track before.
C19_TotalNeverDecreases ==
    \A t \in TrackIds :
        LastTotal(None, results.violations, t) # None =>
            LastTotal(None, results.violations, t) >= peak_total[t]

\* C20: every record of violation_history has
\* consecutive_violations <= total_violations.
C20_ConsecutiveAtMostTotal ==
    \A t \in DOMAIN violation_history :
        violation_history[t].consecutive_violations
            <= violation_history[t].total_violations

\* A second streak: the streak count is 1, the lifetime count 2; and, in
\* other runs, a streak of 3 with a lifetime count of 3.
C20_Witness ==
    \E t \in DOMAIN violation_history :
        /\ violation_history[t].consecutive_violations = 1
        /\ violation_history[t].total_violations = 2
        /\ streak_start[t] = 2

TrackerBox(x) == <<x - 1, 0, x + 1, 2>>

TrackerDetection(x) == Detection(TrackerBox(x), 2, -1)

TrackerInputs ==
    {<<>>,
     <<TrackerDetection(0)>>, <<TrackerDetection(2)>>, <<TrackerDetection(3)>>,
     <<TrackerDetection(-2)>>,
     <<TrackerDetection(0), TrackerDetection(2)>>,
     <<TrackerDetection(2), TrackerDetection(-2)>>,
     <<TrackerDetection(-2), TrackerDetection(2)>>}

MaxAges == {2, 3}

\* A pipeline as constructed, which the tracker runs leave alone.
PipelineIdle ==
    /\ zones = <<>>
    /\ selected_zone_ids = <<>>
    /\ frame_skip = 1
    /\ confirmation_base = 3
    /\ frame_buffer_max = 12
    /\ frame_buffer = <<>>
    /\ zone_presence = <<>>
    /\ violation_history = <<>>
    /\ saved_violation_snapshots = <<>>
    /\ violation_count = 0
    /\ files = {}
    /\ frame_num = 0
    /\ results = EmptyResults(None)
    /\ detected = {}
    /\ unbroken = [t \in TrackIds |-> 0]
    /\ streak_start = [t \in TrackIds |-> None]
    /\ peak_total = [t \in TrackIds |-> 0]

InitTracker ==
    /\ PipelineIdle
    /\ RunIdle
    /\ ZoneStoreIdle
    /\ ServerIdle
    /\ tracks = <<>>
    /\ next_track_id = 1
    /\ max_distance = 3
    /\ max_age \in MaxAges
    /\ min_hits = 2
    /\ updates = 0
    /\ tracker_input = <<>>
    /\ matched = <<>>
    /\ created = {}
    /\ issued = {}
    /\ miss_run = <<>>

\* update(detections), the timestamp being the index of the call; limit
\* bounds the number of calls.
UpdateWithin(detections, limit) ==
    /\ updates < limit
    /\ \E new \in {update(tracks, next_track_id, detections, max_distance,
                          max_age, updates)} :
       \E born \in {new.created} :
           /\ tracks' = new.tracks
           /\ next_track_id' = new.next_track_id
           /\ matched' = new.matched
           /\ created' = born
           /\ issued' = issued \cup born
           /\ miss_run' = [t \in issued \cup born |->
                              IF t \in born \/ t \in DOMAIN new.matched THEN 0
                              ELSE miss_run[t] + 1]
    /\ updates' = updates + 1
    /\ tracker_input' = detections
    /\ UNCHANGED <<max_distance, max_age, min_hits>>
    /\ UNCHANGED <<pipelineVars, runVars, zoneVars, serverVars>>

\* update(detections) within the calls SpecTracker makes.
Update(detections) == UpdateWithin(detections, MaxUpdates)

\* reset()
Reset ==
    /\ tracks' = <<>>
    /\ next_track_id' = 1
    /\ tracker_input' = <<>>
    /\ matched' = <<>>
    /\ created' = {}
    /\ issued' = {}
    /\ miss_run' = <<>>
    /\ UNCHANGED <<max_distance, max_age, min_hits, updates>>
    /\ UNCHANGED <<pipelineVars, runVars, zoneVars, serverVars>>

NextTracker ==
    \/ \E detections \in TrackerInputs : Update(detections)
    \/ Reset

SpecTracker == InitTracker /\ [][NextTracker]_vars

\* C11: every live track has hits <= age.
C11_HitsAtMostAge ==
    \A t \in DOMAIN tracks : tracks[t].hits <= tracks[t].age

\* A track that was matched in the call after its creation.
C11_Witness ==
    \E t \in DOMAIN tracks : tracks[t].hits = 2 /\ tracks[t].age = 3

\* C12: an id that max_age + 1 update calls in a row left unmatched is not a
\* key of tracks.
C12_UnmatchedTrackIsEvicted ==
    \A t \in issued : miss_run[t] >= max_age + 1 => t \notin DOMAIN tracks

\* A track that was live, then stayed unmatched for max_age + 1 calls.
C12_Witness ==
    \E t \in issued :
        /\ miss_run[t] = max_age + 1
        /\ t \notin DOMAIN tracks
        /\ updates = max_age + 2

\* C13: an update call creates as many tracks as it has detections that
\* were matched to no existing track.
C13_NewTrackOnlyForUnmatchedDetection ==
    Cardinality(created) = Len(tracker_input) - Cardinality(DOMAIN matched)

\* C14: a track created by the latest update call has age 1, hits 1 and no
\* miss in the track set the call returned.
C14_NewTrackStartsFresh ==
    \A t \in created \cap DOMAIN tracks :
        /\ tracks[t].age = 1
        /\ tracks[t].hits = 1
        /\ tracks[t].consecutive_misses = 0

\* C15: an update call gives each track it creates an id of its own that is
\* larger than every id handed out before (since construction or the last
\* reset), evicted tracks included; a track is stored under its id.
C15_IdsIncreaseAndAreNotReused ==
    [][updates' # updates =>
          /\ \A n \in created' : \A o \in issued : n > o
          /\ Cardinality(created') =
                 Len(tracker_input')
                     - Cardinality(matched_detection_indices(matched'))
          /\ \A t \in DOMAIN tracks' : tracks'[t].track_id = t
          /\ DOMAIN tracks' \subseteq issued']_vars

\* A track created after an earlier one was evicted.
C15_Witness ==
    /\ created # {}
    /\ \E o \in issued : o \notin DOMAIN tracks /\ o \notin created
    /\ \A n \in created : \A o \in issued \ created : n > o

\* Detections a track may take: not used by a track before it in iteration
\* order, and strictly nearer than max_distance to its last point.
MatchCandidates(trks, detections, m, t) ==
    {i \in 1..Len(detections) :
        /\ \A s \in DOMAIN m : s < t => m[s] # i
        /\ distance2(trks[t].trajectory[Len(trks[t].trajectory)],
                     detections[i].center) < 4 * max_distance * max_distance}

\* C16: the matching of an update call gives each track, in iteration order,
\* the nearest candidate of MatchCandidates, the lowest index among equally
\* near ones, and nothing if there is no candidate; no detection goes to two
\* tracks.
C16_GreedyNearestMatch ==
    [][updates' # updates =>
          /\ DOMAIN matched' \subseteq DOMAIN tracks
          /\ \A t, u \in DOMAIN matched' : t # u => matched'[t] # matched'[u]
          /\ \A t \in DOMAIN tracks :
                 LET cand == MatchCandidates(tracks, tracker_input', matched', t)
                     last == tracks[t].trajectory[Len(tracks[t].trajectory)]
                     d(i) == distance2(last, tracker_input'[i].center)
                 IN  IF cand = {} THEN t \notin DOMAIN matched'
                     ELSE /\ t \in DOMAIN matched'
                          /\ matched'[t] \in cand
                          /\ \A j \in cand :
                                 \/ d(matched'[t]) < d(j)
                                 \/ d(matched'[t]) = d(j) /\ matched'[t] <= j]_vars

\* Two equally near detections of which the first was taken, next to an
\* older track that got none.
C16_Witness ==
    /\ Len(tracker_input) = 2
    /\ \E t \in DOMAIN matched :
           /\ matched[t] = 1
           /\ t \in DOMAIN tracks
           /\ Len(tracks[t].trajectory) >= 2
           /\ distance2(tracks[t].trajectory[Len(tracks[t].trajectory) - 1],
                        tracker_input[1].center)
                  = distance2(tracks[t].trajectory[Len(tracks[t].trajectory) - 1],
                              tracker_input[2].center)
    /\ \E u \in DOMAIN tracks : u \notin created /\ u \notin DOMAIN matched

\* C17: an update call ages every track it found by one (so the track stays
\* exactly when its age + 1 is within max_age); a matched track gains a hit,
\* has no miss and has the centre of its detection appended to its
\* trajectory; an unmatched one gains a miss and keeps hits and trajectory.
C17_UpdateEffectOnExistingTracks ==
    [][updates' # updates =>
          \A t \in DOMAIN tracks :
              /\ t \in DOMAIN tracks' <=> tracks[t].age + 1 <= max_age
              /\ t \in DOMAIN tracks' =>
                     /\ tracks'[t].age = tracks[t].age + 1
                     /\ IF t \in DOMAIN matched'
                        THEN /\ tracks'[t].hits = tracks[t].hits + 1
                             /\ tracks'[t].consecutive_misses = 0
                             /\ tracks'[t].trajectory =
                                    Append(tracks[t].trajectory,
                                           tracker_input'[matched'[t]].center)
                        ELSE /\ tracks'[t].hits = tracks[t].hits
                             /\ tracks'[t].consecutive_misses =
                                    tracks[t].consecutive_misses + 1
                             /\ tracks'[t].trajectory = tracks[t].trajectory]_vars

\* A call that matched one older track and missed another.
C17_Witness ==
    /\ \E t \in DOMAIN tracks \ created :
           /\ t \in DOMAIN matched
           /\ tracks[t].hits = 2 /\ tracks[t].age = 3
           /\ Len(tracks[t].trajectory) = 2
    /\ \E u \in DOMAIN tracks \ created :
           /\ u \notin DOMAIN matched
           /\ tracks[u].hits = 1 /\ tracks[u].consecutive_misses = 2

(***************************************************************************)
(* The zone store on its own: any sequence of load_zones, add_zone and     *)
(* rescale_to calls on a ZoneManager.                                      *)
(***************************************************************************)
\* Zone store calls made in one behaviour.
MaxZoneOps == 3

\* The 100x100 square drawn on a 100x100 canvas.
SquareZone ==
    Zone("z1", <<(<<0, 0>>), (<<100, 0>>), (<<100, 100>>), (<<0, 100>>)>>,
         {"car"}, 100, 100)

\* A zone drawn on a 100x200 canvas, whose vertices scale to halves.
SmallZone ==
    Zone("z2", <<(<<1, 2>>), (<<5, 2>>), (<<5, 6>>), (<<1, 7>>)>>,
         {"truck"}, 100, 200)

\* A zone without base size.
UnscaledZone ==
    Zone("z3", <<(<<0, 0>>), (<<10, 0>>), (<<0, 10>>)>>, {"truck"}, None, None)

\* A zone of two vertices on a canvas of width 0.
SegmentZone ==
    Zone("z1", <<(<<0, 0>>), (<<10, 10>>)>>, {"car"}, 0, 100)

AddedZones == {SquareZone, SmallZone, UnscaledZone, SegmentZone}

\* A zone as zones.json holds it, its polygon as pairs or as dictionaries.
ZoneDict(zone, as_dicts) ==
    [zone_id |-> zone.zone_id,
     polygon |-> IF as_dicts
                 THEN [i \in 1..Len(zone.polygon) |->
                          [x |-> zone.polygon[i][1], y |-> zone.polygon[i][2]]]
                 ELSE zone.polygon,
     polygon_dicts |-> as_dicts,
     allowed_classes |-> zone.allowed_classes,
     base_width |-> zone.base_width, base_height |-> zone.base_height]

\* What load_zones can find at the configured path.
ZoneFiles ==
    {[status |-> "missing", zones |-> <<>>],
     [status |-> "corrupt", zones |-> <<>>],
     [status |-> "ok", zones |-> <<>>],
     [status |-> "ok", zones |-> <<ZoneDict(SquareZone, FALSE)>>],
     [status |-> "ok",
      zones |-> <<ZoneDict(SmallZone, TRUE), ZoneDict(UnscaledZone, FALSE)>>],
     [status |-> "ok", zones |-> <<ZoneDict(SegmentZone, TRUE)>>]}

\* Target frame sizes handed to rescale_to.
RescaleTargets ==
    {<<200, 200>>, <<100, 100>>, <<50, 50>>, <<150, 50>>, <<0, 100>>}

\* The pipeline variables a zone store call leaves alone.
zoneIdleVars == <<selected_zone_ids, frame_skip, confirmation_base, frame_buffer_max, frame_buffer, zone_presence, violation_history, saved_violation_snapshots, violation_count, files, frame_num, results, detected, unbroken, streak_start, peak_total>>

InitZones ==
    /\ PipelineIdle
    /\ TrackerIdle
    /\ RunIdle
    /\ ZoneStoreIdle
    /\ ServerIdle

\* load_zones() with the given file at the configured path.
LoadZones(file) ==
    /\ zone_ops < MaxZoneOps
    /\ zones' = load_zones(zones, file)
    /\ zone_ops' = zone_ops + 1
    /\ rescale_log' = <<>>
    /\ UNCHANGED <<zoneIdleVars, trackerVars, runVars, serverVars>>

\* add_zone(zone)
AddZone(zone) ==
    /\ zone_ops < MaxZoneOps
    /\ zones' = add_zone(zones, zone)
    /\ zone_ops' = zone_ops + 1
    /\ rescale_log' = <<>>
    /\ UNCHANGED <<zoneIdleVars, trackerVars, runVars, serverVars>>

\* rescale_to(target[1], target[2])
Rescale(target) ==
    /\ zone_ops < MaxZoneOps
    /\ zones' = rescale_to(zones, target[1], target[2])
    /\ zone_ops' = zone_ops + 1
    /\ rescale_log' = Append(rescale_log, [target |-> target, before |-> zones])
    /\ UNCHANGED <<zoneIdleVars, trackerVars, runVars, serverVars>>

NextZones ==
    \/ \E file \in ZoneFiles : LoadZones(file)
    \/ \E zone \in AddedZones : AddZone(zone)
    \/ \E target \in RescaleTargets : Rescale(target)

SpecZones == InitZones /\ [][NextZones]_vars

\* C23: rescale round trip.  When the only calls since the zones were
\* stored are rescale_to(w, h) with w, h > 0 and then rescale_to(w0, h0),
\* every zone whose base size is (w0, h0) has each vertex within one pixel
\* per axis of where it was before the first call.
C23_RescaleRoundTrip ==
    (/\ Len(rescale_log) = 2
     /\ rescale_log[1].target[1] > 0
     /\ rescale_log[1].target[2] > 0) =>
        \A i \in 1..Len(zones) :
            (/\ zones[i].base_width > 0
             /\ zones[i].base_height > 0
             /\ rescale_log[2].target = <<zones[i].base_width, zones[i].base_height>>) =>
                \A k \in 1..Len(zones[i].polygon) :
                    LET now == zones[i].polygon[k]
                        was == rescale_log[1].before[i].polygon[k]
                    IN  /\ now[1] - was[1] \in -1..1
                        /\ now[2] - was[2] \in -1..1

\* k is n / d rounded to the nearest integer, a tie going to the even one.
IsRounded(k, n, d) ==
    LET off == IF n >= k * d THEN n - k * d ELSE k * d - n
    IN  2 * off < d \/ (2 * off = d /\ k % 2 = 0)

\* C24: after rescale_to(tw, th) with tw, th > 0, every zone with a
\* positive base size (bw, bh) has each vertex (x, y) it had before at
\* (round(x*tw/bw), round(y*th/bh)), each axis on its own, and its cached
\* polygon and bounding box are those of the new polygon, so that
\* contains_point answers for the new polygon; a zone without base size is
\* as it was.
C24_RescaleMapsVertices ==
    (/\ Len(rescale_log) >= 1
     /\ rescale_log[Len(rescale_log)].target[1] > 0
     /\ rescale_log[Len(rescale_log)].target[2] > 0) =>
        LET call == rescale_log[Len(rescale_log)]
        IN  /\ Len(zones) = Len(call.before)
            /\ \A i \in 1..Len(zones) :
                   LET was == call.before[i]
                   IN  IF was.base_width > 0 /\ was.base_height > 0
                       THEN /\ Len(zones[i].polygon) = Len(was.polygon)
                            /\ \A k \in 1..Len(was.polygon) :
                                   /\ IsRounded(zones[i].polygon[k][1],
                                                was.polygon[k][1] * call.target[1],
                                                was.base_width)
                                   /\ IsRounded(zones[i].polygon[k][2],
                                                was.polygon[k][2] * call.target[2],
                                                was.base_height)
                            /\ zones[i].polygon_array = zones[i].polygon
                            /\ zones[i].bbox_min = BBoxMin(zones[i].polygon)
                            /\ zones[i].bbox_max = BBoxMax(zones[i].polygon)
                            /\ \A x, y \in {0, 50, 150, 250} :
                                   contains_point(zones[i], <<2 * x, 2 * y>>) <=>
                                       PointPolygonTest(zones[i].polygon, <<2 * x, 2 * y>>)
                       ELSE zones[i] = was

\* The 100x100 square rescaled once, to 200x200: its polygon is
\* [(0,0),(200,0),(200,200),(0,200)] and it contains (150,150), which the
\* square did not.
C24_Witness ==
    /\ Len(rescale_log) = 1
    /\ rescale_log[1].target = <<200, 200>>
    /\ \E i \in 1..Len(zones) :
           /\ rescale_log[1].before[i] = SquareZone
           /\ zones[i].polygon =
                  <<(<<0, 0>>), (<<200, 0>>), (<<200, 200>>), (<<0, 200>>)>>
           /\ contains_point(zones[i], <<300, 300>>)
           /\ ~contains_point(SquareZone, <<300, 300>>)

\* C29: every zone the store holds has a polygon of at least 3 vertices
\* and, if it has a base size, a base width and height above 0.
C29_StoredZonesAreWellFormed ==
    \A i \in 1..Len(zones) :
        /\ Len(zones[i].polygon) >= 3
        /\ (zones[i].base_width # None \/ zones[i].base_height # None) =>
               (zones[i].base_width > 0 /\ zones[i].base_height > 0)

\* C36: rescaling is idempotent in the target size: after two
\* rescale_to(w, h) calls in a row with the same w, h > 0, every zone
\* polygon is what it was after the first of them.
C36_RescaleIdempotent ==
    LET n == Len(rescale_log)
    IN  (/\ n >= 2
         /\ rescale_log[n].target = rescale_log[n - 1].target
         /\ rescale_log[n].target[1] > 0
         /\ rescale_log[n].target[2] > 0) =>
            \A i \in 1..Len(zones) :
                zones[i].polygon = rescale_log[n].before[i].polygon

(***************************************************************************)
(* The run under failures: the detector may raise on a frame, saving a     *)
(* snapshot set may raise, the selection may name a zone that does not     *)
(* exist, and the frames are driven by run() or by the job worker.         *)
(***************************************************************************)
RobustSelections == {<<>>, <<"z1", "z9">>}

RobustFrameSkips == {1, 2, 3}

RobustBases == {1, 2}

Orchestrators == {"run", "worker"}

\* One frame's detector output: nothing, a truck in z1, the truck and a
\* second one without identity, a car in z1.
RobustDetections ==
    {<<>>, <<Detection(BoxInZone, 7, 1)>>,
     <<Detection(BoxInZone, 7, 1), Detection(BoxInZone, 7, -1)>>,
     <<Detection(BoxInZone, 2, 1)>>}

\* How saving goes in one call: well, or raising for track 1.
RobustFaults == {NoFaults, [t \in {1} |-> "save"], [t \in {1} |-> "crop"]}

InitRobust ==
    /\ zones = ConfiguredZones
    /\ selected_zone_ids \in RobustSelections
    /\ frame_skip \in RobustFrameSkips
    /\ confirmation_base \in RobustBases
    /\ frame_buffer_max = 2
    /\ frame_buffer = <<>>
    /\ zone_presence = <<>>
    /\ violation_history = <<>>
    /\ saved_violation_snapshots = <<>>
    /\ violation_count = 0
    /\ files = {}
    /\ frame_num = 0
    /\ results = EmptyResults(None)
    /\ detected = {}
    /\ unbroken = [t \in TrackIds |-> 0]
    /\ streak_start = [t \in TrackIds |-> None]
    /\ peak_total = [t \in TrackIds |-> 0]
    /\ orchestrator \in Orchestrators
    /\ aborted = FALSE
    /\ faulted = {}
    /\ detector_output = <<>>
    /\ confirmed_entries = 0
    /\ TrackerIdle
    /\ ZoneStoreIdle
    /\ ServerIdle

\* process_frame on a sampled frame for which detect_with_tracking raises
\* (pipeline.py lines 121-192): the frame is in the buffer and the
\* selection is defaulted by then, and nothing is returned.  run() logs
\* the exception and raises it again (lines 518-520); the job worker logs
\* it and goes on with the next frame (server.py lines 1449-1454).
DetectorRaises ==
    /\ Reading
    /\ is_sampled(frame_num, frame_skip)
    /\ Len(zones) > 0
    /\ frame_buffer' = RecordFrame(frame_buffer, frame_num, frame_buffer_max)
    /\ selected_zone_ids' = DefaultSelection(selected_zone_ids, zones)
    /\ detected' = {}
    /\ IF orchestrator = "run"
       THEN aborted' = TRUE /\ frame_num' = frame_num
       ELSE aborted' = aborted /\ frame_num' = frame_num + 1
    /\ UNCHANGED <<zones, frame_skip, confirmation_base, frame_buffer_max,
                   zone_presence, violation_history,
                   saved_violation_snapshots, violation_count, files,
                   results, unbroken, streak_start, peak_total>>
    /\ UNCHANGED <<trackerVars, orchestrator, faulted, detector_output, confirmed_entries, zoneVars, serverVars>>

NextRobust ==
    \/ SkipFrame
    \/ \E dets \in RobustDetections, faults \in RobustFaults :
           ProcessFrameWith(dets, faults)
    \/ DetectorRaises

SpecRobust == InitRobust /\ [][NextRobust]_vars

\* C26: a detector exception on one frame is never fatal to the run: no
\* run is ended by it.
C26_DetectorFailureIsNotFatal ==
    ~aborted

\* C27: counting and evidence are decoupled.  Whatever becomes of the
\* snapshot saving, a process_frame call that returns has raised
\* violation_count by the number of its confirmed entries, an entry is
\* confirmed exactly when it is violating with its consecutive count at
\* the threshold, and every detection handed to the violation engine has
\* its entry.
C27_CountingIndependentOfSaving ==
    [][results'.frame_num = frame_num =>
          LET vs == results'.violations
          IN  /\ violation_count' = violation_count +
                     Cardinality({i \in 1..Len(vs) : vs[i].is_confirmed})
              /\ \A i \in 1..Len(vs) :
                     vs[i].is_confirmed <=>
                         /\ vs[i].is_violating
                         /\ vs[i].consecutive_violations >=
                                confirm_required(frame_skip, confirmation_base)
              /\ Len(vs) = Len(results'.detections)]_vars

\* A frame of two confirmed entries: saving raised for the first, which
\* has no snapshot and is counted, and the second was handled after it and
\* has its snapshot set.
C27_Witness ==
    /\ Len(results.violations) = 2
    /\ results.violations[1].track_id \in faulted
    /\ results.violations[1].is_confirmed
    /\ results.violations[1].snapshot = NoSnapshot
    /\ results.violations[1].track_id \notin DOMAIN saved_violation_snapshots
    /\ results.violations[2].is_confirmed
    /\ results.violations[2].snapshot # NoSnapshot
    /\ violation_count = 2

\* C28: a selected zone id that is not in the zone store is an error:
\* process_frame never returns the evaluation of a sampled frame while
\* the selection names a zone that does not exist.
C28_UnknownZoneIdIsRefused ==
    (results.frame_num # None /\ results.frame_num % frame_skip = 0) =>
        \A k \in 1..Len(selected_zone_ids) :
            Len(get_zone(zones, selected_zone_ids[k])) > 0

\* C30: the confirmation threshold never rises with the sampling interval:
\* for the configured base (>= 1) and all intervals K1 <= K2,
\* threshold(K1) >= threshold(K2).
C30_ThresholdMonotone ==
    confirmation_base >= 1 =>
        \A K1, K2 \in 1..8 :
            K1 <= K2 =>
                confirm_required(K1, confirmation_base) >=
                    confirm_required(K2, confirmation_base)

(***************************************************************************)
(* A long-lived track: a tracker built with a max_age above the            *)
(* trajectory cap follows one vehicle that moves between two positions,    *)
(* call after call.                                                        *)
(***************************************************************************)
\* Update calls made in one behaviour.
MaxLongUpdates == 105

\* SimpleTracker(max_age = 200)
LongMaxAge == 200

\* What the detector hands to call n: the vehicle at x = 0 or x = 2 in
\* turn; each of the first three calls may also come with no detection.
TrajectoryInputs(n) ==
    {<<TrackerDetection((n % 2) * 2)>>} \cup (IF n < 3 THEN {<<>>} ELSE {})

InitTrajectory ==
    /\ PipelineIdle
    /\ RunIdle
    /\ ZoneStoreIdle
    /\ ServerIdle
    /\ tracks = <<>>
    /\ next_track_id = 1
    /\ max_distance = 3
    /\ max_age = LongMaxAge
    /\ min_hits = 2
    /\ updates = 0
    /\ tracker_input = <<>>
    /\ matched = <<>>
    /\ created = {}
    /\ issued = {}
    /\ miss_run = <<>>

NextTrajectory ==
    \E detections \in TrajectoryInputs(updates) :
        UpdateWithin(detections, MaxLongUpdates)

SpecTrajectory == InitTrajectory /\ [][NextTrajectory]_vars

\* C32: after an update call no trajectory holds more than 100 points,
\* the trajectory, detections and timestamps lists of every track have the
\* same length, and a matched track's trajectory is its former one with
\* the matched centre appended, less its oldest point if it held 100.
C32_TrajectoryCappedOldestFirst ==
    [][/\ \A t \in DOMAIN tracks' :
              /\ Len(tracks'[t].trajectory) <= 100
              /\ Len(tracks'[t].detections) = Len(tracks'[t].trajectory)
              /\ Len(tracks'[t].timestamps) = Len(tracks'[t].trajectory)
       /\ \A t \in DOMAIN matched' \cap DOMAIN tracks \cap DOMAIN tracks' :
              LET was == tracks[t].trajectory
                  centre == tracker_input'[matched'[t]].center
              IN  tracks'[t].trajectory =
                      IF Len(was) < 100 THEN Append(was, centre)
                      ELSE Append(Tail(was), centre)]_vars

\* A track matched more than 100 times: it holds 100 points, the oldest
\* of which is no longer the one it was created with.
C32_Witness ==
    \E t \in DOMAIN tracks :
        /\ tracks[t].hits > 101
        /\ Len(tracks[t].trajectory) = 100
        /\ tracks[t].timestamps[1] = updates - 100
        /\ tracks[t].timestamps[100] = updates - 1

\* C38: violation_count never decreases, always equals the number of
\* entries marked is_confirmed over all the frames processed so far, and
\* so is never below the number of track ids in the snapshot map.
C38_CountIsConfirmedEntries ==
    [][/\ violation_count' >= violation_count
       /\ violation_count' = confirmed_entries'
       /\ violation_count' >= Cardinality(DOMAIN saved_violation_snapshots')]_vars

\* Track 1 confirmed in three processed frames: it counts three times and
\* has one snapshot set.
C38_Witness ==
    /\ violation_count = 3
    /\ DOMAIN saved_violation_snapshots = {1}
    /\ \E e \in Entries : e.track_id = 1 /\ e.is_confirmed

(***************************************************************************)
(* The zone filter: runs over vehicles that enter and leave zone z1, with  *)
(* and without track identity.                                             *)
(***************************************************************************)
FilterFrameSkips == {1, 2, 3, 4}

\* One frame's detector output: cars (allowed in z1) with centre in z1 or
\* outside every zone, as track 1 or without identity.
FilterInputs ==
    {<<>>,
     <<Detection(BoxInZone, 2, 1)>>, <<Detection(BoxOutside, 2, 1)>>,
     <<Detection(BoxInZone, 2, -1)>>, <<Detection(BoxOutside, 2, -1)>>,
     <<Detection(BoxInZone, 2, 1), Detection(BoxOutside, 2, 1)>>,
     <<Detection(BoxOutside, 2, -1), Detection(BoxOutside, 2, 1)>>}

InitFilter ==
    /\ zones = ConfiguredZones
    /\ selected_zone_ids \in {<<>>, <<"z1">>}
    /\ frame_skip \in FilterFrameSkips
    /\ confirmation_base = 3
    /\ frame_buffer_max = 1
    /\ frame_buffer = <<>>
    /\ zone_presence = <<>>
    /\ violation_history = <<>>
    /\ saved_violation_snapshots = <<>>
    /\ violation_count = 0
    /\ files = {}
    /\ frame_num = 0
    /\ results = EmptyResults(None)
    /\ detected = {}
    /\ unbroken = [t \in TrackIds |-> 0]
    /\ streak_start = [t \in TrackIds |-> None]
    /\ peak_total = [t \in TrackIds |-> 0]
    /\ TrackerIdle
    /\ RunIdle
    /\ ZoneStoreIdle
    /\ ServerIdle

NextFilter ==
    \/ SkipFrame
    \/ \E dets \in FilterInputs : ProcessFrame(dets)

SpecFilter == InitFilter /\ [][NextFilter]_vars

\* The centre of the detection lies in a zone the selection names.
CentreInSelectedZone(d, selected) ==
    \E i \in 1..Len(zones) :
        /\ zones[i].zone_id \in Range(selected)
        /\ PointPolygonTest(zones[i].polygon, d.center)

\* C35: at a processed frame f the detections passed on to the violation
\* evaluation are, in order, exactly those whose box centre lies in a
\* selected zone or whose track id >= 0 was last seen in a selected zone
\* at a frame g with f - g <= zone_grace_frames (zone_presence holds that
\* frame: it becomes f for the tracks seen in a zone now and stays for the
\* others); a detection without identity gets no grace, and the violation
\* entries are those of the detections passed on, one each.
C35_ZoneFilterWithGrace ==
    [][(results'.frame_num = frame_num /\ frame_num % frame_skip = 0
            /\ Len(zones) > 0) =>
          LET dets == detector_output'
              sel == selected_zone_ids'
              InZone(i) == CentreInSelectedZone(dets[i], sel)
              Passed(i) ==
                  \/ InZone(i)
                  \/ /\ dets[i].track_id >= 0
                     /\ \/ /\ dets[i].track_id \in DOMAIN zone_presence
                           /\ frame_num - zone_presence[dets[i].track_id]
                                  <= zone_grace_frames
                        \/ \E j \in 1..(i - 1) :
                               dets[j].track_id = dets[i].track_id /\ InZone(j)
              kept == {i \in 1..Len(dets) : Passed(i)}
              seen == {dets[i].track_id : i \in {j \in 1..Len(dets) : InZone(j)}}
                          \ {-1}
          IN  /\ Len(results'.detections) = Cardinality(kept)
              /\ \A i \in kept :
                     results'.detections[Cardinality({j \in kept : j <= i})] = dets[i]
              /\ Len(results'.violations) = Len(results'.detections)
              /\ \A k \in 1..Len(results'.violations) :
                     results'.violations[k].detection = results'.detections[k]
              /\ DOMAIN zone_presence' = DOMAIN zone_presence \cup seen
              /\ \A t \in DOMAIN zone_presence' :
                     zone_presence'[t] =
                         IF t \in seen THEN frame_num ELSE zone_presence[t]]_vars

\* A frame in which track 1, outside every zone and last seen in z1 three
\* frames before, is passed on, and the detection without identity next to
\* it, outside as well, is dropped.
C35_Witness ==
    /\ Len(detector_output) = 2
    /\ detector_output[1].track_id = -1
    /\ detector_output[2].track_id = 1
    /\ ~CentreInSelectedZone(detector_output[2], selected_zone_ids)
    /\ 1 \in DOMAIN zone_presence
    /\ results.frame_num - zone_presence[1] = zone_grace_frames
    /\ results.detections = <<detector_output[2]>>
    /\ Len(results.violations) = 1

(***************************************************************************)
(* The web server's task registry (app/server.py): /api/upload and         *)
(* /api/create-task run in parallel handler threads (threaded=True), and   *)
(* each names its task after task_counter, advances the counter and stores *)
(* the task.  Neither takes a lock, so the threads interleave between the  *)
(* read, the read-modify-write and the store.                              *)
(***************************************************************************)
\* Requests the server receives.
MaxRequests == 3

Requests == 1..MaxRequests

Endpoints == {"upload", "create-task"}

\* ProcessingTask as the handler of request r builds it.
ProcessingTask(task_id, r, endpoint) ==
    [task_id |-> task_id, request |-> r,
     task_type |-> "video", status |-> "queued", endpoint |-> endpoint]

InitServer ==
    /\ PipelineIdle
    /\ TrackerIdle
    /\ RunIdle
    /\ ZoneStoreIdle
    /\ task_counter = 0
    /\ tasks = <<>>
    /\ handler = [r \in Requests |->
                     [pc |-> "idle", endpoint |-> "none", task_id |-> None,
                      loaded |-> None]]
    /\ overwritten = {}
    /\ pipelines = <<>>
    /\ worker = <<>>
    /\ actor = None

serverIdleVars == <<pipelineVars, trackerVars, runVars, zoneVars, pipelines, worker, actor>>

\* Lines 402 and 437: task_id = f"task_{self.task_counter}".
NameTask(r, endpoint) ==
    /\ handler[r].pc = "idle"
    /\ handler' = [handler EXCEPT ![r] = [pc |-> "load", endpoint |-> endpoint,
                                          task_id |-> task_counter,
                                          loaded |-> None]]
    /\ UNCHANGED <<task_counter, tasks, overwritten, serverIdleVars>>

\* Lines 403 and 438, self.task_counter += 1: the read.
LoadCounter(r) ==
    /\ handler[r].pc = "load"
    /\ handler' = [handler EXCEPT ![r].pc = "store",
                                  ![r].loaded = task_counter]
    /\ UNCHANGED <<task_counter, tasks, overwritten, serverIdleVars>>

\* Lines 403 and 438, self.task_counter += 1: the write.
StoreCounter(r) ==
    /\ handler[r].pc = "store"
    /\ task_counter' = handler[r].loaded + 1
    /\ handler' = [handler EXCEPT ![r].pc = "register"]
    /\ UNCHANGED <<tasks, overwritten, serverIdleVars>>

\* Lines 409-410 and 444-445: self.tasks[task_id] = task.
RegisterTask(r) ==
    /\ handler[r].pc = "register"
    /\ tasks' = DictSet(tasks, handler[r].task_id,
                        ProcessingTask(handler[r].task_id, r,
                                       handler[r].endpoint))
    /\ overwritten' = IF handler[r].task_id \in DOMAIN tasks
                      THEN overwritten \cup {tasks[handler[r].task_id].request}
                      ELSE overwritten
    /\ handler' = [handler EXCEPT ![r].pc = "done"]
    /\ UNCHANGED <<task_counter, serverIdleVars>>

NextServer ==
    \E r \in Requests :
        \/ \E endpoint \in Endpoints : NameTask(r, endpoint)
        \/ LoadCounter(r)
        \/ StoreCounter(r)
        \/ RegisterTask(r)

SpecServer == InitServer /\ [][NextServer]_vars

\* C40: under any interleaving of the /api/upload and /api/create-task
\* handlers, no two handlers obtain the same task_id, and no task stored in
\* self.tasks is replaced by another request's task.
C40_TaskIdsUnique ==
    /\ \A r, q \in Requests :
           (r # q /\ handler[r].pc # "idle" /\ handler[q].pc # "idle") =>
               handler[r].task_id # handler[q].task_id
    /\ overwritten = {}

(***************************************************************************)
(* Jobs in worker threads (app/server.py): process() starts one thread per *)
(* job on _process_task, which builds a LaneViolationPipeline and feeds it *)
(* the frames of the job's video.  Objects are modelled by reference:      *)
(* pipelines is the heap of pipeline objects, and a worker's local         *)
(* variable pipeline holds an index into it.                               *)
(***************************************************************************)
\* Frames a job's video holds.
MaxJobFrames == 3

Jobs == {1, 2}

\* What the detector reports for a frame of a job's video: nothing, a car
\* or a truck in z1, under the same track id in every job.
JobInputs ==
    {<<>>, <<Detection(BoxInZone, 2, 1)>>, <<Detection(BoxInZone, 7, 1)>>}

\* LaneViolationPipeline.__init__ (pipeline.py lines 55-100) for a task whose
\* zones.json holds the configured zones.
LaneViolationPipeline ==
    [zones |-> ConfiguredZones, selected_zone_ids |-> <<>>, frame_skip |-> 1,
     confirmation_base |-> 2, frame_buffer_max |-> 2, frame_buffer |-> <<>>,
     zone_presence |-> <<>>, violation_history |-> <<>>,
     saved_violation_snapshots |-> <<>>, violation_count |-> 0]

\* Variant: every job is handed the server's one pipeline object,
\* initialised anew.
construct_shared(heap) ==
    [heap |-> <<LaneViolationPipeline>>, ref |-> 1]

\* Line 1277: the constructor call allocates a new object.
construct_pipeline(heap) ==
    [heap |-> Append(heap, LaneViolationPipeline), ref |-> Len(heap) + 1]

\* process_frame (pipeline.py lines 102-370) as a function of the pipeline
\* object p it is called on; written is the set of image files in the
\* task's snapshot directory.
process_frame(p, dets, frame, written) ==
    LET buffer == RecordFrame(p.frame_buffer, frame, p.frame_buffer_max)
        selected == DefaultSelection(p.selected_zone_ids, p.zones)
        filtered == IF Len(selected) > 0
                    THEN FilterDetections(dets, p.zone_presence, p.zones,
                                          selected, frame)
                    ELSE [presence |-> p.zone_presence, detections |-> dets]
        batch == IF Len(filtered.detections) > 0
                 THEN batch_detect_violations(p.violation_history,
                          filtered.detections, <<>>, p.zones, selected, frame)
                 ELSE [history |-> p.violation_history, violations |-> <<>>]
        done == ConfirmViolations(batch.violations,
                    [count |-> p.violation_count,
                     saved |-> p.saved_violation_snapshots,
                     files |-> written, violations |-> <<>>, failed |-> {}],
                    confirm_required(p.frame_skip, p.confirmation_base),
                    batch.history, buffer, frame, NoFaults)
    IN  IF ~is_sampled(frame, p.frame_skip) \/ Len(p.zones) = 0
        THEN [pipeline |-> [p EXCEPT !.frame_buffer = buffer],
              files |-> written]
        ELSE [pipeline |-> [p EXCEPT !.frame_buffer = buffer,
                                     !.selected_zone_ids = selected,
                                     !.zone_presence = filtered.presence,
                                     !.violation_history = batch.history,
                                     !.violation_count = done.count,
                                     !.saved_violation_snapshots = done.saved],
              files |-> done.files]

InitWorkers ==
    /\ PipelineIdle
    /\ TrackerIdle
    /\ RunIdle
    /\ ZoneStoreIdle
    /\ task_counter = 0
    /\ tasks = <<>>
    /\ handler = <<>>
    /\ overwritten = {}
    /\ pipelines = <<>>
    /\ worker = [j \in Jobs |->
                    [pc |-> "queued", pipeline |-> None, frame_count |-> 0,
                     files |-> {}]]
    /\ actor = None

workerIdleVars == <<pipelineVars, trackerVars, runVars, zoneVars, task_counter, tasks, handler, overwritten>>

\* process() starts the thread; _process_task lines 1265-1303 build the
\* job's pipeline and apply the task's frame_skip option.
StartWorker(j, fs) ==
    /\ worker[j].pc = "queued"
    /\ \E built \in {construct_pipeline(pipelines)} :
           /\ pipelines' = [built.heap EXCEPT ![built.ref].frame_skip = Max(1, fs)]
           /\ worker' = [worker EXCEPT ![j].pc = "processing",
                                       ![j].pipeline = built.ref]
    /\ actor' = j
    /\ UNCHANGED workerIdleVars

\* Lines 1384-1424: one frame of the job's video through process_frame.
WorkerFrame(j, dets) ==
    /\ worker[j].pc = "processing"
    /\ worker[j].frame_count < MaxJobFrames
    /\ \E out \in {process_frame(pipelines[worker[j].pipeline], dets,
                                 worker[j].frame_count, worker[j].files)} :
           /\ pipelines' = [pipelines EXCEPT ![worker[j].pipeline] = out.pipeline]
           /\ worker' = [worker EXCEPT ![j].frame_count = @ + 1,
                                       ![j].files = out.files]
    /\ actor' = j
    /\ UNCHANGED workerIdleVars

NextWorkers ==
    \E j \in Jobs :
        \/ \E fs \in {0, 1, 2} : StartWorker(j, fs)
        \/ \E dets \in JobInputs : WorkerFrame(j, dets)

SpecWorkers == InitWorkers /\ [][NextWorkers]_vars

\* The tracking state of the pipeline object a started job holds.
TrackingState(heap, ref) ==
    [violation_history |-> heap[ref].violation_history,
     frame_buffer |-> heap[ref].frame_buffer,
     saved_violation_snapshots |-> heap[ref].saved_violation_snapshots,
     zone_presence |-> heap[ref].zone_presence,
     violation_count |-> heap[ref].violation_count]

Started(j) == worker[j].pc = "processing"

\* C31: jobs in parallel worker threads share no mutable tracking state.
\* Each started job holds a pipeline object no other job holds, and a step
\* of one job's thread leaves the violation history, frame buffer, snapshot
\* map, zone presence map and violation count of every other started job
\* as they were.
C31_JobsShareNoTrackingState ==
    [][/\ \A j, k \in Jobs :
              (j # k /\ worker'[j].pc = "processing" /\ worker'[k].pc = "processing") =>
                  worker'[j].pipeline # worker'[k].pipeline
       /\ \A j \in Jobs :
              (j # actor' /\ Started(j)) =>
                  /\ worker'[j] = worker[j]
                  /\ TrackingState(pipelines', worker[j].pipeline) =
                         TrackingState(pipelines, worker[j].pipeline)]_vars

\* Both jobs have run: one has a confirmed violation of track 1 with its
\* snapshot saved, the other has seen the same track id without one.
C31_Witness ==
    /\ Started(1) /\ Started(2)
    /\ worker[1].frame_count >= 2 /\ worker[2].frame_count >= 2
    /\ pipelines[worker[1].pipeline].violation_count = 1
    /\ 1 \in DOMAIN pipelines[worker[1].pipeline].saved_violation_snapshots
    /\ pipelines[worker[2].pipeline].violation_count = 0
    /\ 1 \in DOMAIN pipelines[worker[2].pipeline].zone_presence
    /\ pipelines[worker[2].pipeline].saved_violation_snapshots = <<>>
    /\ worker[1].files # {} /\ worker[2].files = {}

====
